---- MODULE Spec2Model ----
(***************************************************************************)
(* A model of the SSE client of eventsource.go: EventSource.Read,          *)
(* EventSource.connect and EventSource.Close, one step per block of code   *)
(* that runs between two acquisitions of es.mu (or around the blocking     *)
(* HTTP request and the blocking Decode).                                  *)
(*                                                                         *)
(* Readers are the goroutines that call Read().  Close() and the           *)
(* cancellation of the request context come from the application at any   *)
(* time.  The server's answers and the decoder's results are inputs,       *)
(* drawn from the small sets below.  The step that ends a blocking Decode  *)
(* includes the code that follows it up to the release of es.mu.           *)
(***************************************************************************)
EXTENDS Integers, Sequences, FiniteSets, TLC

(* -------------------------- bounds and domains ------------------------- *)

\* The HTTP requests one behaviour may issue (each opens connection 1, 2, ...).
MaxAttempts == 2

\* nil, for es.r and es.dec; connections are numbered from 1.
NilConn == 0

\* New(): IdleTimeout: 15 * time.Second.
DefaultIdleTimeout == 15

Procs == {1, 2}

IdleTimeouts == {0, DefaultIdleTimeout}

\* Cursor values a server sends; "" is the empty string.
IDs == {"", "41"}

\* Retry fields: absent, a base-10 integer, not an integer.
Retries == {"", "5", "x"}

Datas == {"", "d"}

Types == {"message"}

\* type Event struct
Event == [Type : Types, ID : IDs, Retry : Retries, Data : Datas, ResetID : BOOLEAN]

\* Event{}
ZeroEvent == [Type |-> "", ID |-> "", Retry |-> "", Data |-> "", ResetID |-> FALSE]

\* Status codes a server answers with.
Statuses == {200, 204, 404, 500, 503}

\* Content-Type header values a server answers with.
ContentTypes == {"text/event-stream", "text/event-stream; charset=utf-8", "text/html", ""}

\* What tempClient.Do returns: a transport error, or a response.
Responses ==
    {[fail |-> TRUE, status |-> 0, ctype |-> ""]}
    \cup [fail : {FALSE}, status : Statuses, ctype : ContentTypes]

\* The callbacks an application may set.
Callbacks == {"OnConnect", "OnDisconnect", "OnError"}

\* Errors of the underlying reader that Decode passes on unchanged.
ReadErrors == {"EOF", "neterr", "timeout"}

(* ------------------------- the server side: domains -------------------- *)

\* The longest Data an encoder is handed, in bytes.
MaxDataLen == 3

\* The encoders (handles) of the server side.
Handles == {1, 2}

LF == "\n"

CR == "\r"

\* A byte that is not valid UTF-8.
BadByte == "xFF"

\* The bytes of a Data: a letter, a line feed, a carriage return, an invalid byte.
Bytes == {"a", LF, CR, BadByte}

SeqsUpTo(S, n) == UNION {[1..k -> S] : k \in 0..n}

\* type Event struct, as the encoder is handed it: its strings and Data are
\* sequences of bytes.
EncoderEvent ==
    [Type : {<<>>, <<"t">>}, ID : {<<>>, <<"4">>}, Retry : {<<>>, <<"5">>},
     Data : SeqsUpTo(Bytes, MaxDataLen), ResetID : BOOLEAN]

\* Event{}
NoEvent == [Type |-> <<>>, ID |-> <<>>, Retry |-> <<>>, Data |-> <<>>, ResetID |-> FALSE]

\* The goroutines that call the registry.
Workers == {1, 2}

\* The handles whose sink has a Close method (is an io.Closer).
Closers == {1}

\* The calls of the registry one behaviour makes.
MaxOps == 3

\* No worker holds cm.mu.
Unlocked == 0

\* The handle is not in cm.encoders.
NoInfo == "none"

\* The *ConnectionInfo registered with each handle.
InfoOf(h) == IF h = 1 THEN "x" ELSE "y"

\* The filter handed to BroadcastTo: the handles whose info is this one (it
\* lets handle 1 pass and not handle 2).
Filters == {"x"}

\* Filter that lets every info pass.
FilterAll(f, info) == TRUE

\* filter(info)
Filter(f, info) == info = f

\* The callbacks of a registry.
ManagerCallbacks == {"onConnect", "onDisconnect"}

\* The event the workers broadcast.
Ping == [Type |-> <<>>, ID |-> <<>>, Retry |-> <<>>, Data |-> <<"a">>, ResetID |-> FALSE]

\* Errors a write to the sink fails with: io.EOF, io.ErrClosedPipe, another.
SinkErrors == {"EOF", "ErrClosedPipe", "errWrite"}

\* The writes of one Encode: at most the id, retry and event records, one data
\* record per line of Data, and the blank line.
MaxWrites == MaxDataLen + 5

\* The sink during one call: every write succeeds, or the at-th write of the
\* call fails with err.
NoFault == [at |-> 0, err |-> "nil"]

Faults == {NoFault} \cup [at : 1..MaxWrites, err : SinkErrors]

VARIABLES
    r,             \* es.r: the committed transport (a connection), or NilConn
    esMu,          \* es.mu: the reader that holds it from one step to the next, or 0
    dec,           \* es.dec: the connection the decoder reads, or NilConn
    lastEventID,   \* es.lastEventID
    header,        \* es.request.Header["Last-Event-Id"]
    idleTimeout,   \* es.IdleTimeout
    retryInterval, \* the time the client waits before an attempt (it has no field for it)
    observers,     \* the callbacks that are not nil
    cancelled,     \* es.request.Context().Err() != nil
    attempts,      \* HTTP requests issued so far
    open,          \* the connections whose body is open (not yet closed)
    rTimeout,      \* es.r.timeout: the committed timeoutReader's timeout (0 when es.r is nil)
    pc,            \* each reader's position
    lLastID,       \* connect(): lastEventID (local)
    lIdle,         \* connect(): idleTimeout (local)
    lResp,         \* connect(): resp, the connection just opened (local)
    lDec,          \* Read(): dec, the connection its reader wraps (local)
    lTimeout,      \* Read(): dec's timeoutReader.timeout
    lErr,          \* Read(): err (local)
    ret,           \* what each reader's last Read() returned
    log,           \* what each reader's current (or last) Read() did, in order
    closedSince,   \* Close() was called since the reader's current (or last) Read() began
    closedAtCommit \* Close() was called since then while the reader's connect() had
                   \* its answer and had not come to the commit yet

\* The encoders of the server side, one per handle (a *Encoder).
VARIABLES
    sink,          \* e.w: the bytes written to the encoder's sink, in order
    flushed,       \* the lengths of the sink at which e.w.Flush() was called
    closed,        \* e.closed
    sinkClosed,    \* how many times the sink's Close() was called
    event,         \* the event handed to Encode
    encRet,        \* what the last call that returned on the encoder returned
    decoded,       \* the events a decoder reads from the encoder's sink
    enc            \* each goroutine's current (or last) call on an encoder: the
                   \* writes it has still to make, and what it returned

encVars == <<sink, flushed, closed, sinkClosed, event, encRet, decoded, enc>>

\* The registry of the server side (a *ConnectionManager) and its workers, the
\* goroutines that call it.
VARIABLES
    encoders,      \* cm.encoders: the info of each registered handle, or NoInfo
    mu,            \* cm.mu: the worker that holds the write lock, or 0
    cmObservers,   \* which of cm.onConnect, cm.onDisconnect are not nil
    wpc,           \* each worker's position
    op,            \* each worker's current (or last) call, its arguments and its number
    snap,          \* Broadcast: the handles of the snapshot not yet written to
    taken,         \* Broadcast: the snapshot as it was taken
    lastErr,       \* Broadcast: lastErr (local)
    todo,          \* CloseAll: the handles whose encoder is still to be closed
    result,        \* what each worker's last call returned
    wrote,         \* Broadcast: the handles written to and what Encode returned, in order
    connects,      \* how many times cm.onConnect was invoked for each handle
    disconnects,   \* how many times cm.onDisconnect was invoked for each handle
    registers,     \* how many times each handle was registered
    ops            \* the calls made so far

regVars == <<encoders, mu, cmObservers, wpc, op, snap, taken, lastErr, todo,
             result, wrote, connects, disconnects, registers, ops>>

serverVars == <<encVars, regVars>>

vars == <<r, esMu, dec, lastEventID, header, idleTimeout, retryInterval, observers,
          cancelled, attempts, open, rTimeout, pc, lLastID, lIdle, lResp,
          lDec, lTimeout, lErr, ret, log,
          closedSince, closedAtCommit, serverVars>>

clientVars == <<r, esMu, rTimeout, dec, lastEventID, header, idleTimeout, retryInterval>>

localVars == <<lLastID, lIdle, lResp, lDec, lTimeout, lErr>>

\* All that belongs to the client and its readers.
esVars == <<clientVars, observers, cancelled, attempts, open, pc, localVars, ret, log,
            closedSince, closedAtCommit>>

(* ------------------------------ helpers -------------------------------- *)

\* An entry of a reader's log: a call of Read ("Read": how the previous call
\* ended, and the connection it decoded from), a request sent ("attempt": the
\* Last-Event-Id it carried), the answer ("response": the Content-Type and the
\* status, or "fail"), a callback invoked ("OnConnect", "OnDisconnect",
\* "OnError": its argument), a return of Decode ("decode": what it returned,
\* and the connection read).
Entry(kind, arg, n) == [kind |-> kind, arg |-> arg, n |-> n]

\* mime.ParseMediaType: the media type, lower-cased, without parameters; "" on error.
ParseMediaType(ct) ==
    CASE ct = "text/event-stream" -> "text/event-stream"
      [] ct = "text/event-stream; charset=utf-8" -> "text/event-stream"
      [] ct = "text/html" -> "text/html"
      [] OTHER -> ""

\* connect(): the switch on err and resp.StatusCode.
Classify(resp) ==
    IF resp.fail THEN "fail"
    ELSE IF resp.status >= 500 THEN "5xx"
    ELSE IF resp.status = 204 THEN "204"
    ELSE IF resp.status # 200 THEN "unrecoverable"
    ELSE IF ParseMediaType(resp.ctype) # "text/event-stream" THEN "badtype"
    ELSE "ok"

\* Report that tells no callback of an answer with another content type.
ReportStatusOnly(class) ==
    CASE class = "fail" -> <<Entry("OnError", "connection attempt failed", 0)>>
      [] class = "5xx" -> <<Entry("OnError", "temporary server error", 0)>>
      [] class = "204" -> <<Entry("OnDisconnect", "ErrClosed", 0)>>
      [] class = "unrecoverable" -> <<Entry("OnError", "unrecoverable HTTP status", 0)>>
      [] OTHER -> <<>>

\* connect(): the callback each class of answer is reported to, and with what.
Report(class) ==
    CASE class = "fail" -> <<Entry("OnError", "connection attempt failed", 0)>>
      [] class = "5xx" -> <<Entry("OnError", "temporary server error", 0)>>
      [] class = "204" -> <<Entry("OnDisconnect", "ErrClosed", 0)>>
      [] class = "unrecoverable" -> <<Entry("OnError", "unrecoverable HTTP status", 0)>>
      [] class = "badtype" -> <<Entry("OnError", "invalid content type", 0)>>
      [] OTHER -> <<>>

\* if es.OnX != nil { es.OnX(...) }
Invoke(calls) == SelectSeq(calls, LAMBDA c : c.kind \in observers)

\* CloseConn that closes nothing.
CloseConnNothing(c) == open

\* if es.r != nil { es.r.Close() }: the open connections afterwards.
CloseConn(c) == IF c # NilConn THEN open \ {c} ELSE open

\* Read(): a timeout of the network is renamed, any other error is kept.
WrapTimeout(err) == IF err = "timeout" THEN "read timeout: timeout" ELSE err

\* timeoutReader.Read: a read deadline is set only when timeout > 0.
ReadErrorsOf(p) ==
    IF lTimeout[p] > 0 THEN ReadErrors ELSE ReadErrors \ {"timeout"}

\* What reader p's Decode can return: an event, ErrInvalidEncoding, or the
\* error of the underlying reader unchanged.
DecodeResults(p) ==
    [ev : Event, err : {"nil"}]
    \cup [ev : {ZeroEvent}, err : {"ErrInvalidEncoding"} \cup ReadErrorsOf(p)]

\* NextLastEventID taking the ID of a reset event: lastEventID = e.ID when
\* len(e.ID) > 0 || e.ResetID.
NextLastEventIDFromID(cur, e) ==
    IF e.ID # "" \/ e.ResetID THEN e.ID ELSE cur

\* Read(): the cursor after event e is returned.
NextLastEventID(cur, e) ==
    IF e.ResetID THEN ""
    ELSE IF e.ID # "" THEN e.ID
    ELSE cur

\* A Retry field as milliseconds; -1 when it is no base-10 integer.
RetryMillis(s) == IF s = "5" THEN 5 ELSE -1

\* Read(): the wait before an attempt after event e is returned; Read() does
\* not look at e.Retry.
NextRetryInterval(cur, e) == cur

\* IsEmptyData that finds no event empty.
IsEmptyDataNever(e) == FALSE

\* len(e.Data) == 0
IsEmptyData(e) == e.Data = ""

\* What a return of Decode is logged as: the error, or whether the event has data.
DecodeTag(res) ==
    IF res.err # "nil" THEN res.err
    ELSE IF res.ev.Data = "" THEN "empty"
    ELSE "event"

\* What an answer is logged as.
ResponseEntry(resp) ==
    IF resp.fail THEN Entry("response", "fail", 0)
    ELSE Entry("response", resp.ctype, resp.status)

\* The entries of a log of one kind.
Entries(l, kind) == SelectSeq(l, LAMBDA x : x.kind = kind)

\* The classes of answers: a failed request, a server error, "no content",
\* an event stream, anything else.
ResponseClass(e) ==
    IF e.arg = "fail" THEN "fail"
    ELSE IF e.n >= 500 /\ e.n <= 599 THEN "5xx"
    ELSE IF e.n = 204 THEN "204"
    ELSE IF e.n = 200 /\ e.arg \in {"text/event-stream", "text/event-stream; charset=utf-8"}
         THEN "ok"
    ELSE "unrecoverable"

\* How the reader's last Read() ended, as its next Read() finds the client:
\* Close() was called since it began, or the class of the answer that made it
\* fail, or the error it returned.
PrevOutcome(p) ==
    IF closedSince[p] THEN "Close"
    ELSE IF log[p] = <<>> THEN "first"
    ELSE IF ret[p].err = "ErrConnectionFailed" /\ Entries(log[p], "response") # <<>>
         THEN ResponseClass(Entries(log[p], "response")[1])
    ELSE ret[p].err

\* The connection the reader's last Read() decoded from, or NilConn.
PrevConn(p) ==
    IF Entries(log[p], "decode") # <<>> THEN Entries(log[p], "decode")[1].n ELSE NilConn

\* A Read() that has not returned yet.
Pending == [ev |-> ZeroEvent, err |-> "pending"]

\* A return of Read(): the reader is idle again and its locals are gone.
Return(p, ev, err) ==
    /\ pc' = [pc EXCEPT ![p] = "idle"]
    /\ ret' = [ret EXCEPT ![p] = [ev |-> ev, err |-> err]]
    /\ lLastID' = [lLastID EXCEPT ![p] = ""]
    /\ lIdle' = [lIdle EXCEPT ![p] = 0]
    /\ lResp' = [lResp EXCEPT ![p] = NilConn]
    /\ lDec' = [lDec EXCEPT ![p] = NilConn]
    /\ lTimeout' = [lTimeout EXCEPT ![p] = 0]
    /\ lErr' = [lErr EXCEPT ![p] = "nil"]

Goto(p, label) == pc' = [pc EXCEPT ![p] = label]

(* ------------------------------- Init ---------------------------------- *)

\* New(req), and the fields the application then sets: the callbacks, and
\* IdleTimeout.
InitClient ==
    /\ r = NilConn
    /\ esMu = Unlocked
    /\ dec = NilConn
    /\ lastEventID = ""
    /\ header = ""
    /\ idleTimeout \in IdleTimeouts
    /\ retryInterval = 0
    /\ observers \in SUBSET Callbacks
    /\ cancelled = FALSE
    /\ attempts = 0
    /\ open = {}
    /\ rTimeout = 0
    /\ lLastID = [p \in Procs |-> ""]
    /\ lIdle = [p \in Procs |-> 0]
    /\ lResp = [p \in Procs |-> NilConn]
    /\ lDec = [p \in Procs |-> NilConn]
    /\ lTimeout = [p \in Procs |-> 0]
    /\ lErr = [p \in Procs |-> "nil"]
    /\ ret = [p \in Procs |-> [ev |-> ZeroEvent, err |-> "nil"]]
    /\ log = [p \in Procs |-> <<>>]
    /\ closedSince = [p \in Procs |-> FALSE]
    /\ closedAtCommit = [p \in Procs |-> FALSE]

\* An encoder that was handed nothing yet.
NotCalled == "not called"

\* A goroutine that has made no call on an encoder.
NoCall ==
    [name |-> "none", h |-> 0, n |-> 0, at |-> "idle", ev |-> NoEvent, todo |-> <<>>,
     flush |-> FALSE, planErr |-> "nil", wrote |-> 0, sinkErr |-> "nil", ret |-> "none"]

\* NewEncoder(w) for every handle; nothing is written, nothing decoded.
InitEncoders ==
    /\ sink = [h \in Handles |-> <<>>]
    /\ flushed = [h \in Handles |-> <<>>]
    /\ closed = [h \in Handles |-> FALSE]
    /\ sinkClosed = [h \in Handles |-> 0]
    /\ encRet = [h \in Handles |-> NotCalled]
    /\ decoded = [h \in Handles |-> <<>>]
    /\ enc = [g \in Workers |-> NoCall]

\* NewConnectionManager(), and the calls of SetOnConnect and SetOnDisconnect
\* the application made before it started its workers: no handle, any set of
\* callbacks; no worker has called the registry yet.
InitRegistry ==
    /\ encoders = [h \in Handles |-> NoInfo]
    /\ mu = Unlocked
    /\ cmObservers \in SUBSET ManagerCallbacks
    /\ wpc = [w \in Workers |-> "idle"]
    /\ op = [w \in Workers |-> [name |-> "none", h |-> 0, filter |-> "", n |-> 0]]
    /\ snap = [w \in Workers |-> <<>>]
    /\ taken = [w \in Workers |-> <<>>]
    /\ lastErr = [w \in Workers |-> "nil"]
    /\ todo = [w \in Workers |-> {}]
    /\ result = [w \in Workers |-> "none"]
    /\ wrote = [w \in Workers |-> <<>>]
    /\ connects = [h \in Handles |-> 0]
    /\ disconnects = [h \in Handles |-> 0]
    /\ registers = [h \in Handles |-> 0]
    /\ ops = 0

\* No registry is used.
RegistryOff ==
    /\ InitRegistry
    /\ cmObservers = {}

\* The server side is not used.
ServerOff ==
    /\ InitEncoders
    /\ event = NoEvent
    /\ RegistryOff

\* One goroutine calls Read() in a loop (the documented use).
Init ==
    /\ InitClient
    /\ pc = [p \in Procs |-> IF p = 1 THEN "idle" ELSE "off"]
    /\ ServerOff

\* Several goroutines call Read() on one client that has every callback set
\* and no IdleTimeout.
InitConc ==
    /\ InitClient
    /\ idleTimeout = 0
    /\ observers = Callbacks
    /\ pc = [p \in Procs |-> "idle"]
    /\ ServerOff

(* ------------------------------ Read() --------------------------------- *)

\* Read() is called and checks the context.
ReadEnter(p) ==
    /\ pc[p] = "idle"
    /\ log' = [log EXCEPT ![p] = <<Entry("Read", PrevOutcome(p), PrevConn(p))>>]
    /\ closedSince' = [closedSince EXCEPT ![p] = FALSE]
    /\ closedAtCommit' = [closedAtCommit EXCEPT ![p] = FALSE]
    /\ IF cancelled
       THEN Return(p, ZeroEvent, "ctx")
       ELSE /\ Goto(p, "cn_fast")
            /\ ret' = [ret EXCEPT ![p] = Pending]
            /\ UNCHANGED localVars
    /\ UNCHANGED <<clientVars, observers, cancelled, attempts, open>>
    /\ UNCHANGED serverVars

(* ----------------------------- connect() ------------------------------- *)

\* Fast path: already connected.
ConnectFast(p) ==
    /\ pc[p] = "cn_fast"
    /\ esMu = Unlocked
    /\ Goto(p, IF r # NilConn THEN "rd_dec" ELSE "cn_ctx")
    /\ UNCHANGED <<clientVars, observers, cancelled, attempts, open,
                   localVars, ret, log, closedSince, closedAtCommit>>
    /\ UNCHANGED serverVars

\* The context is checked before the attempt.
ConnectCtx(p) ==
    /\ pc[p] = "cn_ctx"
    /\ IF cancelled
       THEN Return(p, ZeroEvent, "ErrConnectionFailed")
       ELSE Goto(p, "cn_params") /\ UNCHANGED <<ret, localVars>>
    /\ UNCHANGED <<clientVars, observers, cancelled, attempts, open,
                   log, closedSince, closedAtCommit>>
    /\ UNCHANGED serverVars

\* The parameters of the connection are read under the read lock.
ConnectParams(p) ==
    /\ pc[p] = "cn_params"
    /\ esMu = Unlocked
    /\ lLastID' = [lLastID EXCEPT ![p] = lastEventID]
    /\ lIdle' = [lIdle EXCEPT ![p] = idleTimeout]
    /\ Goto(p, "cn_check")
    /\ UNCHANGED <<clientVars, observers, cancelled, attempts, open,
                   lResp, lDec, lTimeout, lErr, ret, log,
          closedSince, closedAtCommit>>
    /\ UNCHANGED serverVars

\* connect(): who holds es.mu when the second check is done and the request
\* is prepared: es.mu.Unlock() comes before the header is set.
RequestLock(p) == Unlocked

\* The second check of es.r, under the lock.
ConnectCheck(p) ==
    /\ pc[p] = "cn_check"
    /\ esMu = Unlocked
    /\ Goto(p, IF r # NilConn THEN "rd_dec" ELSE "cn_header")
    /\ esMu' = IF r # NilConn THEN Unlocked ELSE RequestLock(p)
    /\ UNCHANGED <<r, rTimeout, dec, lastEventID, header, idleTimeout, retryInterval,
                   observers, cancelled, attempts, open,
                   localVars, ret, log, closedSince, closedAtCommit>>
    /\ UNCHANGED serverVars

\* SetHeader that leaves the header as it is.
SetHeaderKept(p) == header

\* es.request.Header.Set("Last-Event-Id", lastEventID)
SetHeader(p) == lLastID[p]

ConnectHeader(p) ==
    /\ pc[p] = "cn_header"
    /\ header' = SetHeader(p)
    /\ Goto(p, "cn_do")
    /\ UNCHANGED <<r, esMu, dec, lastEventID, idleTimeout, retryInterval, observers,
                   cancelled, attempts, open, rTimeout, localVars, ret, log,
                   closedSince, closedAtCommit>>
    /\ UNCHANGED serverVars

\* tempClient.Do on a cancelled context fails before any request is sent.
ConnectDoCancelled(p) ==
    /\ pc[p] = "cn_do"
    /\ cancelled
    /\ log' = [log EXCEPT ![p] = @ \o Invoke(Report("fail"))]
    /\ Return(p, ZeroEvent, "ErrConnectionFailed")
    /\ UNCHANGED <<clientVars, observers, cancelled, attempts, open,
                   closedSince, closedAtCommit>>
    /\ UNCHANGED serverVars

\* tempClient.Do: the request goes out with the header as it is set; the answer
\* is classified, reported, and either kept for the commit or dropped.
ConnectDo(p) ==
    /\ pc[p] = "cn_do"
    /\ ~cancelled
    /\ attempts < MaxAttempts
    /\ \E resp \in Responses :
         LET class == Classify(resp) IN
         /\ attempts' = attempts + 1
         /\ log' = [log EXCEPT ![p] = @
                      \o <<Entry("attempt", header, 0), ResponseEntry(resp)>>
                      \o Invoke(Report(class))]
         /\ IF class = "ok"
            THEN /\ open' = open \cup {attempts + 1}
                 /\ lResp' = [lResp EXCEPT ![p] = attempts + 1]
                 /\ Goto(p, "cn_commit")
                 /\ UNCHANGED <<ret, lLastID, lIdle, lDec, lTimeout, lErr>>
            ELSE /\ Return(p, ZeroEvent, "ErrConnectionFailed")
                 /\ UNCHANGED open
    /\ UNCHANGED <<clientVars, observers, cancelled, closedSince, closedAtCommit>>
    /\ UNCHANGED serverVars

\* CommitFinds that finds no transport, whatever es.r is.
CommitFindsNothing(p) == FALSE

\* connect(), at the commit: if es.r != nil (another goroutine connected first).
CommitFinds(p) == r # NilConn

\* The commit under the lock: the new transport, unless one is committed
\* already; then the lock is released and the reader's own response is closed
\* next, no lock held.
ConnectCommit(p) ==
    /\ pc[p] = "cn_commit"
    /\ esMu = Unlocked
    /\ IF CommitFinds(p)
       THEN /\ Goto(p, "cn_closeown")
            /\ UNCHANGED <<r, dec, rTimeout>>
       ELSE /\ r' = lResp[p]
            /\ dec' = lResp[p]
            /\ rTimeout' = lIdle[p]
            /\ Goto(p, "cn_onconnect")
    /\ UNCHANGED <<esMu, lastEventID, header, idleTimeout, retryInterval, observers,
                   cancelled, attempts, open, localVars, ret, log, closedSince,
                   closedAtCommit>>
    /\ UNCHANGED serverVars

\* Another goroutine connected first: resp.Body.Close(), after es.mu.Unlock();
\* connect() returns true.
ConnectCloseOwn(p) ==
    /\ pc[p] = "cn_closeown"
    /\ open' = CloseConn(lResp[p])
    /\ Goto(p, "rd_dec")
    /\ UNCHANGED <<clientVars, observers, cancelled, attempts,
                   localVars, ret, log, closedSince, closedAtCommit>>
    /\ UNCHANGED serverVars

\* es.OnConnect(url), outside the lock.
ConnectOnConnect(p) ==
    /\ pc[p] = "cn_onconnect"
    /\ log' = [log EXCEPT ![p] = @ \o Invoke(<<Entry("OnConnect", "", 0)>>)]
    /\ Goto(p, "rd_dec")
    /\ UNCHANGED <<clientVars, observers, cancelled, attempts, open,
                   localVars, ret, closedSince, closedAtCommit>>
    /\ UNCHANGED serverVars

(* ------------------------- Read(), after connect ----------------------- *)

\* dec := es.dec, under the read lock.
ReadDec(p) ==
    /\ pc[p] = "rd_dec"
    /\ esMu = Unlocked
    /\ IF dec = NilConn
       THEN Return(p, ZeroEvent, "ErrConnectionFailed")
       ELSE /\ lDec' = [lDec EXCEPT ![p] = dec]
            /\ lTimeout' = [lTimeout EXCEPT ![p] = rTimeout]
            /\ Goto(p, "rd_decode")
            /\ UNCHANGED <<ret, lLastID, lIdle, lResp, lErr>>
    /\ UNCHANGED <<clientVars, observers, cancelled, attempts, open,
                   log, closedSince, closedAtCommit>>
    /\ UNCHANGED serverVars

\* Decode has returned res to reader p.
Decoded(p, res) == log' = [log EXCEPT ![p] = @ \o <<Entry("decode", DecodeTag(res), lDec[p])>>]

\* IsDisconnect that spares no error.
IsDisconnectAlways(err) == err # "nil"

\* Read(): which decode errors are treated as a disconnect.
IsDisconnect(err) == err # "nil" /\ err # "ErrInvalidEncoding"

\* err = dec.Decode(&e) returns ErrInvalidEncoding, which Read() returns as it is.
ReadInvalidEncoding(p) ==
    /\ pc[p] = "rd_decode"
    /\ \E res \in DecodeResults(p) :
         /\ res.err # "nil"
         /\ ~IsDisconnect(res.err)
         /\ Decoded(p, res)
         /\ Return(p, ZeroEvent, res.err)
    /\ UNCHANGED <<clientVars, observers, cancelled, attempts, open, closedSince, closedAtCommit>>
    /\ UNCHANGED serverVars

\* Decode returns any other error: the transport is closed and dropped under
\* the lock.
ReadTeardown(p) ==
    /\ pc[p] = "rd_decode"
    /\ esMu = Unlocked
    /\ \E res \in DecodeResults(p) :
         /\ IsDisconnect(res.err)
         /\ Decoded(p, res)
         /\ lErr' = [lErr EXCEPT ![p] = WrapTimeout(res.err)]
    /\ open' = CloseConn(r)
    /\ r' = NilConn
    /\ rTimeout' = 0
    /\ dec' = NilConn
    /\ Goto(p, "rd_ondisc")
    /\ UNCHANGED <<esMu, lastEventID, header, idleTimeout, retryInterval, observers,
                   cancelled, attempts, lLastID, lIdle, lResp, lDec, lTimeout,
                   ret, closedSince, closedAtCommit>>
    /\ UNCHANGED serverVars

\* es.OnDisconnect(url, err), outside the lock; the error is returned.
ReadOnDisconnect(p) ==
    /\ pc[p] = "rd_ondisc"
    /\ log' = [log EXCEPT ![p] = @ \o Invoke(<<Entry("OnDisconnect", lErr[p], 0)>>)]
    /\ Return(p, ZeroEvent, lErr[p])
    /\ UNCHANGED <<clientVars, observers, cancelled, attempts, open, closedSince, closedAtCommit>>
    /\ UNCHANGED serverVars

\* Decode returns an event with len(e.Data) == 0.
ReadEmpty(p) ==
    /\ pc[p] = "rd_decode"
    /\ \E res \in DecodeResults(p) :
         /\ res.err = "nil"
         /\ IsEmptyData(res.ev)
         /\ Decoded(p, res)
         /\ Return(p, ZeroEvent, "ErrEmptyLine")
    /\ UNCHANGED <<clientVars, observers, cancelled, attempts, open, closedSince, closedAtCommit>>
    /\ UNCHANGED serverVars

\* Decode returns an event with data: the cursor is updated under the lock and
\* the event is returned.
ReadEvent(p) ==
    /\ pc[p] = "rd_decode"
    /\ esMu = Unlocked
    /\ \E res \in DecodeResults(p) :
         /\ res.err = "nil"
         /\ ~IsEmptyData(res.ev)
         /\ Decoded(p, res)
         /\ lastEventID' = NextLastEventID(lastEventID, res.ev)
         /\ retryInterval' = NextRetryInterval(retryInterval, res.ev)
         /\ Return(p, res.ev, "nil")
    /\ UNCHANGED <<r, esMu, rTimeout, dec, header, idleTimeout, observers, cancelled,
                   attempts, open, closedSince, closedAtCommit>>
    /\ UNCHANGED serverVars

(* ----------------------- the application's calls ----------------------- *)

\* Close()
Close ==
    /\ esMu = Unlocked
    /\ open' = CloseConn(r)
    /\ r' = NilConn
    /\ rTimeout' = 0
    /\ dec' = NilConn
    /\ closedSince' = [p \in Procs |-> TRUE]
    /\ closedAtCommit' = [p \in Procs |-> closedAtCommit[p] \/ pc[p] = "cn_commit"]
    /\ UNCHANGED <<esMu, lastEventID, header, idleTimeout, retryInterval, observers,
                   cancelled, attempts, pc, localVars, ret, log>>
    /\ UNCHANGED serverVars

\* SetIdleTimeout(timeout), under the lock.
SetIdleTimeout(timeout) ==
    /\ esMu = Unlocked
    /\ idleTimeout' = timeout
    /\ UNCHANGED <<r, esMu, rTimeout, dec, lastEventID, header, retryInterval, observers,
                   cancelled, attempts, open, pc, localVars, ret, log, closedSince,
                   closedAtCommit>>
    /\ UNCHANGED serverVars

\* The request's context is cancelled.
Cancel ==
    /\ ~cancelled
    /\ cancelled' = TRUE
    /\ UNCHANGED <<clientVars, observers, attempts, open, pc,
                   localVars, ret, log, closedSince, closedAtCommit>>
    /\ UNCHANGED serverVars

(* ------------------------------- Next ---------------------------------- *)

\* The steps of one reader and of the application.  With one reader no commit
\* finds a transport, so that ConnectCloseOwn has no place here.  A
\* SetIdleTimeout() of the value IdleTimeout has changes nothing: it is a
\* stuttering step, which every behaviour may take.
Next ==
    \/ \E p \in Procs : ReadEnter(p)
    \/ \E p \in Procs : ConnectFast(p)
    \/ \E p \in Procs : ConnectCtx(p)
    \/ \E p \in Procs : ConnectParams(p)
    \/ \E p \in Procs : ConnectCheck(p)
    \/ \E p \in Procs : ConnectHeader(p)
    \/ \E p \in Procs : ConnectDoCancelled(p)
    \/ \E p \in Procs : ConnectDo(p)
    \/ \E p \in Procs : ConnectCommit(p)
    \/ \E p \in Procs : ConnectOnConnect(p)
    \/ \E p \in Procs : ReadDec(p)
    \/ \E p \in Procs : ReadInvalidEncoding(p)
    \/ \E p \in Procs : ReadTeardown(p)
    \/ \E p \in Procs : ReadOnDisconnect(p)
    \/ \E p \in Procs : ReadEmpty(p)
    \/ \E p \in Procs : ReadEvent(p)
    \/ Close
    \/ \E timeout \in IdleTimeouts \ {idleTimeout} : SetIdleTimeout(timeout)
    \/ Cancel

Spec == Init /\ [][Next]_vars

\* The event the stream of the concurrent readers carries.
Tick == [Type |-> "message", ID |-> "41", Retry |-> "", Data |-> "d", ResetID |-> FALSE]

\* The answers the server of the concurrent readers gives: an event stream, or
\* none (the request fails).
ConcAnswers ==
    {ResponseEntry(resp) : resp \in {x \in Responses : Classify(x) \in {"ok", "fail"}
                                                       /\ x.ctype \in {"", "text/event-stream"}}}

\* The reader has called Read() at most once.
FewReads(p) == IF log[p] = <<>> THEN TRUE ELSE log[p][1].arg = "first"

\* The steps of several readers of streams of well-formed Tick events, each of
\* which may end with EOF at any time, every reader calling Read() twice at
\* most, and of Close() at any time.  The client keeps the IdleTimeout it was
\* made with: SetIdleTimeout() at any time is part of Next.
NextConc ==
    \/ \E p \in Procs : FewReads(p) /\ ReadEnter(p)
    \/ \E p \in Procs : ConnectFast(p)
    \/ \E p \in Procs : ConnectCtx(p)
    \/ \E p \in Procs : ConnectParams(p)
    \/ \E p \in Procs : ConnectCheck(p)
    \/ \E p \in Procs : ConnectHeader(p)
    \/ \E p \in Procs : ConnectDo(p) /\ Entries(log'[p], "response")[1] \in ConcAnswers
    \/ \E p \in Procs : ConnectCommit(p)
    \/ \E p \in Procs : ConnectCloseOwn(p)
    \/ \E p \in Procs : ConnectOnConnect(p)
    \/ \E p \in Procs : ReadDec(p)
    \/ \E p \in Procs : ReadTeardown(p) /\ lErr'[p] = "EOF"
    \/ \E p \in Procs : ReadOnDisconnect(p)
    \/ \E p \in Procs : ReadEvent(p) /\ ret'[p].ev = Tick
    \/ Close

SpecConc == InitConc /\ [][NextConc]_vars

(* ------------------------------ the encoder ---------------------------- *)

\* utf8.Valid(value)
Valid(value) == \A i \in 1..Len(value) : value[i] # BadByte

\* The place of the first sep in s at or after i, or 0.
RECURSIVE IndexFrom(_, _, _)
IndexFrom(s, sep, i) ==
    IF i > Len(s) THEN 0
    ELSE IF s[i] = sep THEN i
    ELSE IndexFrom(s, sep, i + 1)

\* bytes.Split(s, sep)
RECURSIVE Split(_, _)
Split(s, sep) ==
    LET i == IndexFrom(s, sep, 1) IN
    IF i = 0 THEN <<s>>
    ELSE <<SubSeq(s, 1, i - 1)>> \o Split(SubSeq(s, i + 1, Len(s)), sep)

\* WriteField: the i-th line (from 1) is skipped: len(line) == 0 && i > 0 &&
\* i < len(lines)-1, with i from 0.
Skipped(lines, i) == Len(lines[i]) = 0 /\ i > 1 /\ i < Len(lines)

\* WriteField: a trailing carriage return is cut.
TrimCR(line) ==
    IF Len(line) > 0 /\ line[Len(line)] = CR THEN SubSeq(line, 1, Len(line) - 1) ELSE line

\* Encoder.writeField: the bytes of one record.
writeField(field, value) ==
    IF Len(value) = 0 THEN <<field, LF>>
    ELSE <<field, ":", " ">> \o value \o <<LF>>

\* Encoder.WriteField: the error, and the records written, one write each.
WriteField(field, value) ==
    IF ~Valid(value) THEN [err |-> "ErrInvalidEncoding", writes |-> <<>>]
    ELSE LET lines == Split(value, LF)
             kept == SelectSeq([i \in 1..Len(lines) |-> i], LAMBDA i : ~Skipped(lines, i))
         IN [err |-> "nil",
             writes |-> [k \in 1..Len(kept) |-> writeField(field, TrimCR(lines[kept[k]]))]]

\* WriteID that writes the ID of an event that has one, and the reset otherwise.
WriteIDFirst(ev) ==
    IF Len(ev.ID) > 0 THEN <<WriteField("id", ev.ID)>>
    ELSE IF ev.ResetID THEN <<[err |-> "nil", writes |-> << <<"id", ":", LF>> >>]>>
    ELSE <<>>

\* Encode: the cursor record.
WriteID(ev) ==
    IF ev.ResetID THEN <<[err |-> "nil", writes |-> << <<"id", ":", LF>> >>]>>
    ELSE IF Len(ev.ID) > 0 THEN <<WriteField("id", ev.ID)>>
    ELSE <<>>

\* Encode: the fields it writes, in order.
EncodeSteps(ev) ==
    WriteID(ev)
    \o (IF Len(ev.Retry) > 0 THEN <<WriteField("retry", ev.Retry)>> ELSE <<>>)
    \o (IF Len(ev.Type) > 0 THEN <<WriteField("event", ev.Type)>> ELSE <<>>)
    \o <<WriteField("data", ev.Data)>>

\* Encode: the writes made up to the first field that fails, and its error.
RECURSIVE RunSteps(_)
RunSteps(steps) ==
    IF steps = <<>> THEN [err |-> "nil", writes |-> <<>>]
    ELSE IF Head(steps).err # "nil" THEN Head(steps)
    ELSE LET rest == RunSteps(Tail(steps)) IN
         [err |-> rest.err, writes |-> Head(steps).writes \o rest.writes]

\* The bytes of a sequence of writes.
RECURSIVE Flatten(_)
Flatten(writes) == IF writes = <<>> THEN <<>> ELSE Head(writes) \o Flatten(Tail(writes))

\* PeerGone that knows io.EOF only.
PeerGoneEOF(err) == err = "EOF"

\* handleEncodeError: err == io.EOF || err == io.ErrClosedPipe
PeerGone(err) == err \in {"EOF", "ErrClosedPipe"}

\* handleEncodeError: the error returned.
handleEncodeError(err) == IF PeerGone(err) THEN "ErrConnectionClosed" ELSE err

\* Encode and SetRetry, from the check of e.closed to the Flush: the fields
\* are written in order, then the blank line, on an encoder whose closed flag
\* is isClosed, with the sink failing as f says.  The error returned, the
\* bytes that reached the sink, e.closed afterwards, whether e.w.Flush() was
\* called, and the error a write to the sink returned.
WriteAll(steps, isClosed, f) ==
    IF isClosed
    THEN [err |-> "ErrEncoderClosed", out |-> <<>>, closed |-> TRUE, flush |-> FALSE,
          sinkErr |-> "nil"]
    ELSE LET plan == RunSteps(steps)
             n == Len(plan.writes)
         IN IF f.at \in 1..n
            THEN [err |-> handleEncodeError(f.err),
                  out |-> Flatten(SubSeq(plan.writes, 1, f.at - 1)),
                  closed |-> PeerGone(f.err), flush |-> FALSE, sinkErr |-> f.err]
            ELSE IF plan.err # "nil"
            THEN [err |-> handleEncodeError(plan.err), out |-> Flatten(plan.writes),
                  closed |-> FALSE, flush |-> FALSE, sinkErr |-> "nil"]
            ELSE IF f.at = n + 1
            THEN [err |-> handleEncodeError(f.err), out |-> Flatten(plan.writes),
                  closed |-> PeerGone(f.err), flush |-> TRUE, sinkErr |-> f.err]
            ELSE [err |-> "nil", out |-> Flatten(plan.writes) \o <<LF>>,
                  closed |-> FALSE, flush |-> TRUE, sinkErr |-> "nil"]

\* Encoder.Encode(ev)
Encode(ev, isClosed, f) == WriteAll(EncodeSteps(ev), isClosed, f)

\* The decimal digits.
Digits == <<"0", "1", "2", "3", "4", "5", "6", "7", "8", "9">>

\* fmt.Sprintf("%d", n), for n >= 0.
RECURSIVE Itoa(_)
Itoa(n) == IF n < 10 THEN <<Digits[n + 1]>> ELSE Itoa(n \div 10) \o <<Digits[(n % 10) + 1]>>

\* Encoder.SetRetry(milliseconds): the field it writes.
SetRetrySteps(ms) == <<WriteField("retry", Itoa(ms))>>

\* What a call that ends as res says leaves of the encoder of handle h.
Outcome(h, res) ==
    /\ sink' = [sink EXCEPT ![h] = @ \o res.out]
    /\ flushed' = [flushed EXCEPT ![h] =
                      IF res.flush THEN Append(@, Len(sink[h]) + Len(res.out)) ELSE @]
    /\ closed' = [closed EXCEPT ![h] = res.closed]
    /\ encRet' = [encRet EXCEPT ![h] = res.err]

\* encoder.Encode(ev) on the encoder of handle h, by the only goroutine that
\* uses it: nothing comes between the steps of the call.
EncodeOn(h, ev, f) == Outcome(h, Encode(ev, closed[h], f))

\* ClosesSink that closes the sink at every Close.
ClosesSinkAlways(h) == h \in Closers

\* Encoder.Close: the sink is closed when the encoder is not closed yet and the
\* sink is an io.Closer.
ClosesSink(h) == ~closed[h] /\ h \in Closers

\* Encoder.Close on the encoder of handle h.
CloseEncoder(h) ==
    /\ closed' = [closed EXCEPT ![h] = TRUE]
    /\ sinkClosed' = [sinkClosed EXCEPT ![h] = IF ClosesSink(h) THEN @ + 1 ELSE @]

(* --------------------- the calls on an encoder, by steps --------------- *)

\* Encode and SetRetry hold e.mu for the check of e.closed only, and WriteField
\* and Flush never: a call is the check, then one step for each write to the
\* sink, one for e.w.Flush() and one for the lock region of handleEncodeError,
\* and other goroutines run in between.  Close holds e.mu throughout.

\* Encode and SetRetry check e.closed before they write, and hand the error of
\* a write to handleEncodeError; WriteField and Flush do neither.
Guarded(name) == name \in {"Encode", "SetRetry"}

\* The writes a call has to make for its fields: the records of the fields
\* that come before the first invalid one, and after them, when no field is
\* invalid and the call ends with Flush, the blank line.
Plan(steps, withFlush) ==
    LET plan == RunSteps(steps) IN
    [todo |-> plan.writes \o (IF withFlush /\ plan.err = "nil" THEN << <<LF>> >> ELSE <<>>),
     flush |-> withFlush /\ plan.err = "nil",
     planErr |-> plan.err]

\* The call c has returned err: its arguments and locals are gone.
Ended(c, err) ==
    [c EXCEPT !.at = "idle", !.ev = NoEvent, !.todo = <<>>, !.flush = FALSE,
              !.planErr = "nil", !.ret = err]

\* Goroutine g calls name on the encoder of handle h: Encode and SetRetry
\* return ErrEncoderClosed when e.closed is set; a call whose first field is
\* invalid returns ErrInvalidEncoding; any other call has its writes to make.
Begun(g, name, h, ev, plan) ==
    LET c == [name |-> name, h |-> h, n |-> enc[g].n + 1, at |-> "write", ev |-> ev,
              todo |-> plan.todo, flush |-> plan.flush, planErr |-> plan.planErr,
              wrote |-> 0, sinkErr |-> "nil", ret |-> "pending"]
    IN IF Guarded(name) /\ closed[h] THEN Ended(c, "ErrEncoderClosed")
       ELSE IF plan.todo = <<>> THEN Ended(c, plan.planErr)
       ELSE c

\* A write of the call c, or its Flush, has failed with err: Encode and SetRetry
\* hand err to handleEncodeError, which has e.mu to take for io.EOF and
\* io.ErrClosedPipe and returns any other error; WriteField and Flush return
\* err.
Failing(c, err) ==
    IF Guarded(c.name) /\ PeerGone(err)
    THEN [c EXCEPT !.at = "latch", !.todo = <<>>, !.sinkErr = err]
    ELSE [Ended(c, IF Guarded(c.name) THEN handleEncodeError(err) ELSE err)
             EXCEPT !.sinkErr = err]

\* Goroutine g's next write to the sink has returned res (nil, or an error).
\* After the blank line of Flush, e.w.Flush() comes next whatever res is; after
\* any other write the call goes on with its next write, or returns: the error
\* of the write, or after the last write nil, or ErrInvalidEncoding when the
\* next field is invalid.
AfterWrite(g, res) ==
    LET c == enc[g]
        n == c.wrote + (IF res = "nil" THEN 1 ELSE 0)
    IN IF c.flush /\ Len(c.todo) = 1
       THEN [c EXCEPT !.at = "flush", !.todo = <<>>, !.sinkErr = res, !.wrote = n]
       ELSE IF res # "nil" THEN Failing(c, res)
       ELSE IF Len(c.todo) = 1 THEN [Ended(c, c.planErr) EXCEPT !.wrote = n]
       ELSE [c EXCEPT !.todo = Tail(c.todo), !.wrote = n]

\* Flush: e.w.Flush() has been called; the error of the write of the blank
\* line is returned.
AfterFlush(g) ==
    LET c == enc[g] IN
    IF c.sinkErr # "nil" THEN Failing(c, c.sinkErr) ELSE Ended(c, c.planErr)

\* handleEncodeError has set e.closed under e.mu and returns.
AfterLatch(g) == Ended(enc[g], handleEncodeError(enc[g].sinkErr))

\* The call of goroutine g becomes c: what it returns, if it returns, is the
\* last result of the encoder.
Returning(c) ==
    encRet' = [encRet EXCEPT ![c.h] = IF c.at = "idle" THEN c.ret ELSE @]

\* What goroutine g's next write, which returns res, leaves of the encoder: a
\* write that succeeds appends its bytes.
WriteTo(g, res) ==
    LET c == enc[g] IN
    /\ sink' = [sink EXCEPT ![c.h] = IF res = "nil" THEN @ \o Head(c.todo) ELSE @]
    /\ Returning(AfterWrite(g, res))
    /\ UNCHANGED <<flushed, closed>>

\* e.w.Flush(), called by goroutine g: what the sink holds by now is flushed.
FlushTo(g) ==
    /\ flushed' = [flushed EXCEPT ![enc[g].h] = Append(@, Len(sink[enc[g].h]))]
    /\ Returning(AfterFlush(g))
    /\ UNCHANGED <<sink, closed>>

\* handleEncodeError, called by goroutine g: e.mu.Lock(); e.closed = true.
LatchOn(g) ==
    /\ closed' = [closed EXCEPT ![enc[g].h] = TRUE]
    /\ Returning(AfterLatch(g))
    /\ UNCHANGED <<sink, flushed>>

(* ------------------------------ the decoder ---------------------------- *)

\* The complete lines of a byte stream.
Lines(bytes) ==
    LET segs == Split(bytes, LF) IN SubSeq(segs, 1, Len(segs) - 1)

\* The value of a line: nothing without a colon, else what follows the colon,
\* less one leading space.
LineValue(line) ==
    IF Len(line) >= 2 /\ line[2] = ":"
    THEN LET v == SubSeq(line, 3, Len(line)) IN
         IF Len(v) > 0 /\ v[1] = " " THEN Tail(v) ELSE v
    ELSE <<>>

\* The event a decoder is accumulating.
NoFields == [Type |-> <<>>, ID |-> <<>>, Retry |-> <<>>, ResetID |-> FALSE, datas |-> <<>>]

\* A line is added to the event: an id line with an empty value resets the
\* cursor, a data line is one more line of the payload; a comment or an
\* unknown field is ignored.
AddLine(pend, line) ==
    LET v == LineValue(line) IN
    CASE line[1] = "id" -> IF v = <<>> THEN [pend EXCEPT !.ResetID = TRUE]
                           ELSE [pend EXCEPT !.ID = v]
      [] line[1] = "event" -> [pend EXCEPT !.Type = v]
      [] line[1] = "retry" -> [pend EXCEPT !.Retry = v]
      [] line[1] = "data" -> [pend EXCEPT !.datas = Append(@, v)]
      [] OTHER -> pend

\* The lines of a payload, joined by line feeds.
RECURSIVE Join(_)
Join(datas) ==
    IF datas = <<>> THEN <<>>
    ELSE IF Len(datas) = 1 THEN datas[1]
    ELSE datas[1] \o <<LF>> \o Join(Tail(datas))

\* A blank line ends the event.
Finalize(pend) ==
    [Type |-> pend.Type, ID |-> pend.ID, Retry |-> pend.Retry,
     Data |-> Join(pend.datas), ResetID |-> pend.ResetID]

RECURSIVE DecodeLines(_, _, _)
DecodeLines(lines, i, pend) ==
    IF i > Len(lines) THEN <<>>
    ELSE IF lines[i] = <<>> THEN <<Finalize(pend)>> \o DecodeLines(lines, i + 1, NoFields)
    ELSE DecodeLines(lines, i + 1, AddLine(pend, lines[i]))

\* The events successive calls of Decode return from a byte stream.
DecodeAll(bytes) == DecodeLines(Lines(bytes), 1, NoFields)

(* ------------------------ encoding and decoding ------------------------ *)

\* The client is not used.
ClientOff ==
    /\ InitClient
    /\ idleTimeout = DefaultIdleTimeout
    /\ observers = {}
    /\ pc = [p \in Procs |-> "off"]

\* An application hands one event to the encoder of handle 1.
InitCodec ==
    /\ ClientOff
    /\ InitEncoders
    /\ RegistryOff
    /\ event \in EncoderEvent

\* Encode(event) on the encoder of handle 1, once.
EncodeEvent ==
    /\ encRet[1] = NotCalled
    /\ \E f \in Faults : EncodeOn(1, event, f)
    /\ UNCHANGED <<sinkClosed, event, decoded, enc, regVars>>
    /\ UNCHANGED <<clientVars, observers, cancelled, attempts, open, pc,
                   localVars, ret, log, closedSince, closedAtCommit>>

\* A decoder reads the sink of handle 1 to its end.
DecodeSink ==
    /\ encRet[1] # NotCalled
    /\ decoded[1] # DecodeAll(sink[1])
    /\ decoded' = [decoded EXCEPT ![1] = DecodeAll(sink[1])]
    /\ UNCHANGED <<sink, flushed, closed, sinkClosed, event, encRet, enc, regVars>>
    /\ UNCHANGED <<clientVars, observers, cancelled, attempts, open, pc,
                   localVars, ret, log, closedSince, closedAtCommit>>

NextCodec ==
    \/ EncodeEvent
    \/ DecodeSink

SpecCodec == InitCodec /\ [][NextCodec]_vars

(* ----------------------- the calls on one encoder ---------------------- *)

\* The calls one behaviour makes on its encoder.
MaxCalls == 2

\* The events an application hands to Encode: one byte of data, valid or not,
\* with or without a cursor.
CallEvents ==
    [Type : {<<>>}, ID : {<<>>, <<"4">>}, Retry : {<<>>}, Data : {<<"a">>, <<BadByte>>},
     ResetID : {FALSE}]

\* What a write to the sink returns: nil, or an error of that sink: the sink of
\* handle 1 meets io.EOF and an error of another kind, the sink of handle 2
\* io.ErrClosedPipe.
WriteResults(h) == IF h = 1 THEN {"nil", "EOF", "errWrite"} ELSE {"nil", "ErrClosedPipe"}

\* The values an application hands to WriteField, for the field "data".
FieldValues == {<<"a">>, <<BadByte>>}

\* The milliseconds an application hands to SetRetry.
RetryValues == {45}

\* What the Close() of a sink returns.
CloseErrors == {"nil", "errClose"}

\* The goroutines of an application use the encoder of handle h, and no other.
InitEncoder ==
    /\ ClientOff
    /\ InitEncoders
    /\ RegistryOff
    /\ event = NoEvent

\* The calls made so far on the encoders.
CallsMade == enc[1].n + enc[2].n

\* Goroutine g, which is in no call, may make one more on the encoder of handle h.
MayCall(g, h) ==
    /\ enc[g].at = "idle"
    /\ CallsMade < MaxCalls
    /\ \A k \in Workers : enc[k].h \in {0, h}

\* Goroutine g begins a call that touches neither the sink nor e.closed yet.
Begins1(g, c) ==
    /\ enc' = [enc EXCEPT ![g] = c]
    /\ encRet' = [encRet EXCEPT ![c.h] = IF c.at = "idle" THEN c.ret ELSE @]
    /\ UNCHANGED <<sink, flushed, closed, sinkClosed, event, decoded, regVars, esVars>>

\* e.Encode(ev): the check of e.closed.
EncoderEncode(g, h) ==
    /\ MayCall(g, h)
    /\ \E ev \in CallEvents :
         Begins1(g, Begun(g, "Encode", h, ev, Plan(EncodeSteps(ev), TRUE)))

\* e.SetRetry(ms): the check of e.closed.
EncoderSetRetry(g, h) ==
    /\ MayCall(g, h)
    /\ \E ms \in RetryValues :
         Begins1(g, Begun(g, "SetRetry", h, NoEvent, Plan(SetRetrySteps(ms), TRUE)))

\* e.WriteField("data", value), called by the application: the value is checked.
EncoderWriteField(g, h) ==
    /\ MayCall(g, h)
    /\ \E value \in FieldValues :
         Begins1(g, Begun(g, "WriteField", h, NoEvent,
                          Plan(<<WriteField("data", value)>>, FALSE)))

\* e.Flush(), called by the application.
EncoderFlush(g, h) ==
    /\ MayCall(g, h)
    /\ Begins1(g, Begun(g, "Flush", h, NoEvent, Plan(<<>>, TRUE)))

\* The next write of goroutine g's call returns.
EncoderWrite(g) ==
    /\ enc[g].at = "write"
    /\ \E res \in WriteResults(enc[g].h) :
         /\ WriteTo(g, res)
         /\ enc' = [enc EXCEPT ![g] = AfterWrite(g, res)]
    /\ UNCHANGED <<sinkClosed, event, decoded, regVars, esVars>>

\* e.w.Flush() of goroutine g's call.
EncoderSinkFlush(g) ==
    /\ enc[g].at = "flush"
    /\ FlushTo(g)
    /\ enc' = [enc EXCEPT ![g] = AfterFlush(g)]
    /\ UNCHANGED <<sinkClosed, event, decoded, regVars, esVars>>

\* handleEncodeError of goroutine g's call sets e.closed.
EncoderLatch(g) ==
    /\ enc[g].at = "latch"
    /\ LatchOn(g)
    /\ enc' = [enc EXCEPT ![g] = AfterLatch(g)]
    /\ UNCHANGED <<sinkClosed, event, decoded, regVars, esVars>>

\* e.Close(), under e.mu: what the sink's Close returns is returned, when it
\* is called.
EncoderClose(g, h) ==
    /\ MayCall(g, h)
    /\ \E cerr \in CloseErrors :
         LET err == IF ClosesSink(h) THEN cerr ELSE "nil" IN
         /\ CloseEncoder(h)
         /\ encRet' = [encRet EXCEPT ![h] = err]
         /\ enc' = [enc EXCEPT ![g] =
                       [NoCall EXCEPT !.name = "Close", !.h = h, !.n = enc[g].n + 1,
                                      !.ret = err]]
    /\ UNCHANGED <<sink, flushed, event, decoded, regVars, esVars>>

NextEncoder ==
    \/ \E g \in Workers, h \in Handles : EncoderEncode(g, h)
    \/ \E g \in Workers, h \in Handles : EncoderSetRetry(g, h)
    \/ \E g \in Workers, h \in Handles : EncoderWriteField(g, h)
    \/ \E g \in Workers, h \in Handles : EncoderFlush(g, h)
    \/ \E g \in Workers : EncoderWrite(g)
    \/ \E g \in Workers : EncoderSinkFlush(g)
    \/ \E g \in Workers : EncoderLatch(g)
    \/ \E g \in Workers, h \in Handles : EncoderClose(g, h)

SpecEncoder == InitEncoder /\ [][NextEncoder]_vars

(* ------------------------------ the registry --------------------------- *)

\* The handles in cm.encoders.
Registered == {h \in Handles : encoders[h] # NoInfo}

\* len(cm.encoders)
CountOf(m) == Cardinality({h \in Handles : m[h] # NoInfo})

\* The infos of cm.encoders.
ListOf(m) == {m[h] : h \in {x \in Handles : m[x] # NoInfo}}

\* The orders in which a range over a set of handles may run.
Orders(S) ==
    {q \in [1..Cardinality(S) -> S] : \A i, j \in 1..Cardinality(S) : q[i] = q[j] => i = j}

\* What a write to the sink of a client returns when a broadcast reaches it:
\* nil, or the error of that sink: the peer of handle 1 goes away, the sink of
\* handle 2 fails otherwise.
RegistryResults(h) == {"nil", IF h = 1 THEN "EOF" ELSE "errWrite"}

\* IsConnectionError(err): the error is classified as a closed connection.
IsConnectionError(err) == err = "ErrConnectionClosed"

\* Failed that only counts the closed connections.
FailedConnection(err) == IsConnectionError(err)

\* Broadcast: if err := encoder.Encode(event); err != nil
Failed(err) == err # "nil"

\* NextLastErr that keeps any error.
NextLastErrAny(cur, err) == err

\* Broadcast: if IsConnectionError(err) { lastErr = err }
NextLastErr(cur, err) == IF IsConnectionError(err) THEN err ELSE cur

\* Present that finds every handle.
PresentAlways(h) == TRUE

\* Unregister: if info, exists := cm.encoders[encoder]; exists
Present(h) == encoders[h] # NoInfo

\* CloseAllLock that takes no lock.
CloseAllLockSkipped(w) == Unlocked

\* CloseAll: cm.mu.Lock(); the holder of cm.mu while CloseAll runs.
CloseAllLock(w) == w

\* A call begins: the worker is idle and the calls are not used up.
Begins(w, name, h, f) ==
    /\ wpc[w] = "idle"
    /\ ops < MaxOps
    /\ ops' = ops + 1
    /\ op' = [op EXCEPT ![w] = [name |-> name, h |-> h, filter |-> f, n |-> ops + 1]]

\* Register(encoder, info): the lock is taken and the handle inserted; without a
\* connect callback the call returns, with one the callback comes next, the
\* lock still held (it is released by the deferred Unlock).
Register(w, h) ==
    /\ Begins(w, "Register", h, "")
    /\ mu = Unlocked
    /\ encoders' = [encoders EXCEPT ![h] = InfoOf(h)]
    /\ registers' = [registers EXCEPT ![h] = @ + 1]
    /\ IF "onConnect" \in cmObservers
       THEN mu' = w /\ wpc' = [wpc EXCEPT ![w] = "rg_cb"]
       ELSE mu' = Unlocked /\ wpc' = [wpc EXCEPT ![w] = "idle"]
    /\ result' = [result EXCEPT ![w] = "none"]
    /\ UNCHANGED <<cmObservers, snap, taken, lastErr, todo, wrote, connects, disconnects>>
    /\ UNCHANGED <<encVars, esVars>>

\* cm.onConnect(encoder) runs and returns; the deferred Unlock releases the lock.
RegisterCallback(w) ==
    /\ wpc[w] = "rg_cb"
    /\ connects' = [connects EXCEPT ![op[w].h] = @ + 1]
    /\ mu' = Unlocked
    /\ wpc' = [wpc EXCEPT ![w] = "idle"]
    /\ UNCHANGED <<encoders, cmObservers, op, snap, taken, lastErr, todo, result, wrote,
                   disconnects, registers, ops>>
    /\ UNCHANGED <<encVars, esVars>>

\* The body of Unregister(encoder) once the lock is taken: a handle that is
\* present is deleted; without a disconnect callback the call returns (to
\* back), with one the callback comes next, the lock still held.
Unregistering(w, h, back) ==
    /\ mu = Unlocked
    /\ IF Present(h)
       THEN /\ encoders' = [encoders EXCEPT ![h] = NoInfo]
            /\ IF "onDisconnect" \in cmObservers
               THEN mu' = w /\ wpc' = [wpc EXCEPT ![w] = "un_cb"]
               ELSE mu' = Unlocked /\ wpc' = [wpc EXCEPT ![w] = back]
       ELSE /\ UNCHANGED <<encoders, mu>>
            /\ wpc' = [wpc EXCEPT ![w] = back]

\* Unregister(encoder), called by a worker.
Unregister(w, h) ==
    /\ Begins(w, "Unregister", h, "")
    /\ Unregistering(w, h, "idle")
    /\ result' = [result EXCEPT ![w] = "none"]
    /\ UNCHANGED <<cmObservers, snap, taken, lastErr, todo, wrote, connects, disconnects,
                   registers>>
    /\ UNCHANGED <<encVars, esVars>>

\* cm.onDisconnect(encoder) runs and returns; the deferred Unlock releases the
\* lock, and Unregister returns to its caller.
UnregisterCallback(w) ==
    /\ wpc[w] = "un_cb"
    /\ disconnects' = [disconnects EXCEPT ![op[w].h] = @ + 1]
    /\ mu' = Unlocked
    /\ wpc' = [wpc EXCEPT ![w] =
                  IF op[w].name \in {"Broadcast", "BroadcastTo"} THEN "bc_write" ELSE "idle"]
    /\ UNCHANGED <<encoders, cmObservers, op, snap, taken, lastErr, todo, result, wrote,
                   connects, registers, ops>>
    /\ UNCHANGED <<encVars, esVars>>

\* SnapshotLock that keeps the lock for the writes.
SnapshotLockKept(w) == w

\* Broadcast and BroadcastTo: who holds cm.mu once the snapshot is copied:
\* cm.mu.RUnlock() comes before the loop over the encoders.
SnapshotLock(w) == Unlocked

\* Broadcast and BroadcastTo: the handles in S are copied under the read lock,
\* in the order the range over the map yields them.
Snapshot(w, S) ==
    /\ mu = Unlocked
    /\ mu' = SnapshotLock(w)
    /\ \E q \in Orders(S) :
         /\ snap' = [snap EXCEPT ![w] = q]
         /\ taken' = [taken EXCEPT ![w] = q]
    /\ lastErr' = [lastErr EXCEPT ![w] = "nil"]
    /\ wrote' = [wrote EXCEPT ![w] = <<>>]
    /\ result' = [result EXCEPT ![w] = "none"]
    /\ wpc' = [wpc EXCEPT ![w] = "bc_write"]
    /\ UNCHANGED <<encoders, cmObservers, todo, connects, disconnects, registers>>
    /\ UNCHANGED <<encVars, esVars>>

\* Broadcast(event): the snapshot of all handles.
Broadcast(w) ==
    /\ Begins(w, "Broadcast", 0, "")
    /\ Snapshot(w, Registered)

\* BroadcastTo(event, filter): the snapshot of the handles whose info passes
\* the filter.
BroadcastTo(w, f) ==
    /\ Begins(w, "BroadcastTo", 0, f)
    /\ Snapshot(w, {h \in Registered : Filter(f, encoders[h])})

\* Broadcast and BroadcastTo: encoder.Encode(event) has returned err for the
\* handle at the head of the snapshot; a handle whose Encode failed is
\* unregistered next.
EncodeReturns(w, err) ==
    LET h == Head(snap[w]) IN
    /\ snap' = [snap EXCEPT ![w] = Tail(@)]
    /\ op' = [op EXCEPT ![w].h = h]
    /\ wrote' = [wrote EXCEPT ![w] = Append(@, [h |-> h, err |-> err, regs |-> registers[h]])]
    /\ lastErr' = [lastErr EXCEPT ![w] = IF Failed(err) THEN NextLastErr(@, err) ELSE @]
    /\ wpc' = [wpc EXCEPT ![w] = IF Failed(err) THEN "bc_unreg" ELSE "bc_write"]

\* encoder.Encode(event) for the next handle of the snapshot, no lock held:
\* the check of e.closed, which returns ErrEncoderClosed or lets the writes
\* follow.
BroadcastWrite(w) ==
    /\ wpc[w] = "bc_write"
    /\ snap[w] # <<>>
    /\ LET c == Begun(w, "Encode", Head(snap[w]), event, Plan(EncodeSteps(event), TRUE)) IN
       IF c.at = "idle"
       THEN /\ EncodeReturns(w, c.ret)
            /\ encRet' = [encRet EXCEPT ![c.h] = c.ret]
            /\ UNCHANGED enc
       ELSE /\ enc' = [enc EXCEPT ![w] = c]
            /\ wpc' = [wpc EXCEPT ![w] = "bc_field"]
            /\ UNCHANGED <<encRet, snap, op, wrote, lastErr>>
    /\ UNCHANGED <<encoders, mu, cmObservers, taken, todo, result, connects, disconnects,
                   registers, ops>>
    /\ UNCHANGED <<sink, flushed, closed, sinkClosed, event, decoded, esVars>>

\* Worker w's Encode becomes c: when it has returned, the loop of the broadcast
\* goes on.
EncodeGoes(w, c) ==
    IF c.at = "idle"
    THEN /\ EncodeReturns(w, c.ret)
         /\ enc' = [enc EXCEPT ![w] = NoCall]
    ELSE /\ enc' = [enc EXCEPT ![w] = c]
         /\ UNCHANGED <<wpc, snap, op, wrote, lastErr>>

\* The next write of the Encode of worker w's broadcast returns.
BroadcastField(w) ==
    /\ wpc[w] = "bc_field"
    /\ enc[w].at = "write"
    /\ \E res \in RegistryResults(enc[w].h) :
         /\ WriteTo(w, res)
         /\ EncodeGoes(w, AfterWrite(w, res))
    /\ UNCHANGED <<encoders, mu, cmObservers, taken, todo, result, connects, disconnects,
                   registers, ops>>
    /\ UNCHANGED <<sinkClosed, event, decoded, esVars>>

\* e.w.Flush() of the Encode of worker w's broadcast.
BroadcastFlush(w) ==
    /\ wpc[w] = "bc_field"
    /\ enc[w].at = "flush"
    /\ FlushTo(w)
    /\ EncodeGoes(w, AfterFlush(w))
    /\ UNCHANGED <<encoders, mu, cmObservers, taken, todo, result, connects, disconnects,
                   registers, ops>>
    /\ UNCHANGED <<sinkClosed, event, decoded, esVars>>

\* handleEncodeError of the Encode of worker w's broadcast sets e.closed.
BroadcastLatch(w) ==
    /\ wpc[w] = "bc_field"
    /\ enc[w].at = "latch"
    /\ LatchOn(w)
    /\ EncodeGoes(w, AfterLatch(w))
    /\ UNCHANGED <<encoders, mu, cmObservers, taken, todo, result, connects, disconnects,
                   registers, ops>>
    /\ UNCHANGED <<sinkClosed, event, decoded, esVars>>

\* cm.Unregister(encoder) for the handle whose write failed.
BroadcastUnregister(w) ==
    /\ wpc[w] = "bc_unreg"
    /\ Unregistering(w, op[w].h, "bc_write")
    /\ UNCHANGED <<cmObservers, op, snap, taken, lastErr, todo, result, wrote, connects,
                   disconnects, registers, ops>>
    /\ UNCHANGED <<encVars, esVars>>

\* return lastErr
BroadcastReturn(w) ==
    /\ wpc[w] = "bc_write"
    /\ snap[w] = <<>>
    /\ result' = [result EXCEPT ![w] = lastErr[w]]
    /\ wpc' = [wpc EXCEPT ![w] = "idle"]
    /\ UNCHANGED <<encoders, mu, cmObservers, op, snap, taken, lastErr, todo, wrote,
                   connects, disconnects, registers, ops>>
    /\ UNCHANGED <<encVars, esVars>>

\* Count(), under the read lock.
Count(w) ==
    /\ Begins(w, "Count", 0, "")
    /\ mu = Unlocked
    /\ result' = [result EXCEPT ![w] = CountOf(encoders)]
    /\ UNCHANGED <<encoders, mu, cmObservers, wpc, snap, taken, lastErr, todo, wrote,
                   connects, disconnects, registers>>
    /\ UNCHANGED <<encVars, esVars>>

\* List(), under the read lock.
List(w) ==
    /\ Begins(w, "List", 0, "")
    /\ mu = Unlocked
    /\ result' = [result EXCEPT ![w] = ListOf(encoders)]
    /\ UNCHANGED <<encoders, mu, cmObservers, wpc, snap, taken, lastErr, todo, wrote,
                   connects, disconnects, registers>>
    /\ UNCHANGED <<encVars, esVars>>

\* CloseAll(): the lock is taken.
CloseAll(w) ==
    /\ Begins(w, "CloseAll", 0, "")
    /\ mu = Unlocked
    /\ mu' = CloseAllLock(w)
    /\ todo' = [todo EXCEPT ![w] = Registered]
    /\ wpc' = [wpc EXCEPT ![w] = "ca_close"]
    /\ result' = [result EXCEPT ![w] = "none"]
    /\ UNCHANGED <<encoders, cmObservers, snap, taken, lastErr, wrote, connects,
                   disconnects, registers>>
    /\ UNCHANGED <<encVars, esVars>>

\* CloseAll(): encoder.Close() for one more handle of the map.
CloseAllClose(w) ==
    /\ wpc[w] = "ca_close"
    /\ \E h \in todo[w] \cap Registered :
         /\ CloseEncoder(h)
         /\ todo' = [todo EXCEPT ![w] = @ \ {h}]
    /\ UNCHANGED <<encoders, mu, cmObservers, wpc, op, snap, taken, lastErr, result, wrote,
                   connects, disconnects, registers, ops>>
    /\ UNCHANGED <<sink, flushed, event, encRet, decoded, enc, esVars>>

\* CloseAll(): the map is replaced by an empty one and the lock released.
CloseAllClear(w) ==
    /\ wpc[w] = "ca_close"
    /\ todo[w] \cap Registered = {}
    /\ encoders' = [h \in Handles |-> NoInfo]
    /\ todo' = [todo EXCEPT ![w] = {}]
    /\ mu' = Unlocked
    /\ wpc' = [wpc EXCEPT ![w] = "idle"]
    /\ UNCHANGED <<cmObservers, op, snap, taken, lastErr, result, wrote, connects,
                   disconnects, registers, ops>>
    /\ UNCHANGED <<encVars, esVars>>

\* SetOnConnect(fn) and SetOnDisconnect(fn), under the lock: the callback cb
\* is set to a function (isSet) or to nil.  The call is one of the MaxOps
\* calls made on the registry; the goroutine that makes it is none of the
\* workers, whose own calls it can fall between.
SetCallback(cb, isSet) ==
    /\ mu = Unlocked
    /\ ops < MaxOps
    /\ ops' = ops + 1
    /\ cmObservers' = IF isSet THEN cmObservers \cup {cb} ELSE cmObservers \ {cb}
    /\ UNCHANGED <<encoders, mu, wpc, op, snap, taken, lastErr, todo, result, wrote,
                   connects, disconnects, registers>>
    /\ UNCHANGED <<encVars, esVars>>

\* cm.SetOnConnect(fn)
SetOnConnect(isSet) == SetCallback("onConnect", isSet)

\* cm.SetOnDisconnect(fn)
SetOnDisconnect(isSet) == SetCallback("onDisconnect", isSet)

\* The workers of a server call the registry.
InitServer ==
    /\ ClientOff
    /\ InitEncoders
    /\ event = Ping
    /\ InitRegistry

NextServer ==
    \/ \E w \in Workers, h \in Handles : Register(w, h)
    \/ \E w \in Workers : RegisterCallback(w)
    \/ \E w \in Workers, h \in Handles : Unregister(w, h)
    \/ \E w \in Workers : UnregisterCallback(w)
    \/ \E w \in Workers : Broadcast(w)
    \/ \E w \in Workers, f \in Filters : BroadcastTo(w, f)
    \/ \E w \in Workers : BroadcastWrite(w)
    \/ \E w \in Workers : BroadcastField(w)
    \/ \E w \in Workers : BroadcastFlush(w)
    \/ \E w \in Workers : BroadcastLatch(w)
    \/ \E w \in Workers : BroadcastUnregister(w)
    \/ \E w \in Workers : BroadcastReturn(w)
    \/ \E w \in Workers : Count(w)
    \/ \E w \in Workers : List(w)
    \/ \E w \in Workers : CloseAll(w)
    \/ \E w \in Workers : CloseAllClose(w)
    \/ \E w \in Workers : CloseAllClear(w)
    \/ \E isSet \in BOOLEAN : SetOnConnect(isSet)
    \/ \E isSet \in BOOLEAN : SetOnDisconnect(isSet)

SpecServer == InitServer /\ [][NextServer]_vars

(* ----------------------------- the properties --------------------------- *)

\* Reader p has called Read() at least once.
Started(p) == log[p] # <<>>

\* How the Read() before p's current (or last) one ended.
Before(p) == log[p][1].arg

\* The connection the Read() before p's current (or last) one decoded from.
StreamBefore(p) == log[p][1].n

\* p's current (or last) Read() has returned.
Returned(p) == Started(p) /\ pc[p] = "idle"

Attempts(p) == Entries(log[p], "attempt")

Answers(p) == Entries(log[p], "response")

Decodes(p) == Entries(log[p], "decode")

\* The callbacks p's current (or last) Read() invoked, in order.
Invoked(p) == SelectSeq(log[p], LAMBDA x : x.kind \in Callbacks)

\* One invocation of a callback that is set, none of one that is not.
Once(kind, arg) == IF kind \in observers THEN <<Entry(kind, arg, 0)>> ELSE <<>>

\* p's current (or last) Read() got an answer of this class.
Got(p, class) == Started(p) /\ Answers(p) # <<>> /\ ResponseClass(Answers(p)[1]) = class

\* In this step Decode returned to p, and what it returned is tagged tag.
DecodeStep(p, tag) ==
    /\ Started(p)
    /\ Decodes(p) = <<>>
    /\ log'[p] # <<>>
    /\ Entries(log'[p], "decode") # <<>>
    /\ Entries(log'[p], "decode")[1].arg = tag

\* The error Read() returns for an error of the underlying reader.
Surfaced(tag) == IF tag = "timeout" THEN "read timeout: timeout" ELSE tag

\* C1: once Close() has been called, the next Read() (on a context that is not
\* cancelled) sends no request and returns the latched terminal error, ErrClosed.
C1_ReadAfterCloseFailsFast ==
    \A p \in Procs :
        (Started(p) /\ Before(p) = "Close" /\ ~cancelled) =>
            /\ Attempts(p) = <<>>
            /\ (pc[p] = "idle" => ret[p].err = "ErrClosed")

\* C2: a Read() whose request is answered 204 invokes the disconnect observer
\* exactly once, with ErrClosed, and the Read() after it sends no request.
C2_NoContentIsTerminal ==
    \A p \in Procs :
        /\ (Returned(p) /\ Got(p, "204")) =>
              Entries(log[p], "OnDisconnect") = Once("OnDisconnect", "ErrClosed")
        /\ (Started(p) /\ Before(p) = "204") => Attempts(p) = <<>>

\* C3: a Read() whose request gets an unrecoverable answer (a status other than
\* 200, 204 and 5xx, or 200 with another content type than text/event-stream)
\* invokes the error observer, and the Read() after it sends no request.
C3_UnrecoverableIsTerminal ==
    \A p \in Procs :
        /\ (Returned(p) /\ Got(p, "unrecoverable") /\ "OnError" \in observers) =>
              Len(Entries(log[p], "OnError")) = 1
        /\ (Started(p) /\ Before(p) = "unrecoverable") => Attempts(p) = <<>>

\* C4: connect() retries a 5xx itself, so no Read() on a context that is not
\* cancelled returns with a 5xx as the last answer it got.
C4_ConnectRetriesServerError ==
    \A p \in Procs :
        (Returned(p) /\ ~cancelled /\ Answers(p) # <<>>) =>
            ResponseClass(Answers(p)[Len(Answers(p))]) # "5xx"

\* C5: a request carries, as Last-Event-Id, the client's lastEventID of the
\* moment it is sent (and a Read() sends at most one).
C5_AttemptCarriesCursor ==
    [][\A p \in Procs :
          (pc[p] = "cn_do" /\ attempts' = attempts + 1) =>
              Entries(log'[p], "attempt") = <<Entry("attempt", lastEventID, 0)>>]_vars

\* C5: a request has carried the cursor 41 of an event returned before it.
C5_Witness ==
    \E p \in Procs : Attempts(p) # <<>> /\ Attempts(p)[1].arg = "41" /\ lastEventID = "41"

\* C6: when Read() returns an event, lastEventID is "" if the event resets the
\* cursor, else the event's ID if it has one, else what it was.
C6_CursorAfterEvent ==
    [][\A p \in Procs :
          DecodeStep(p, "event") =>
              /\ pc'[p] = "idle"
              /\ ret'[p].err = "nil"
              /\ (ret'[p].ev.ResetID => lastEventID' = "")
              /\ (~ret'[p].ev.ResetID /\ ret'[p].ev.ID # "" => lastEventID' = ret'[p].ev.ID)
              /\ (~ret'[p].ev.ResetID /\ ret'[p].ev.ID = "" => lastEventID' = lastEventID)]_vars

\* C6: an event that resets the cursor and has an ID was returned after a
\* request had carried a cursor that was not empty, and the cursor is empty.
C6_Witness ==
    \E p \in Procs :
        /\ Returned(p) /\ ret[p].err = "nil"
        /\ ret[p].ev.ResetID /\ ret[p].ev.ID # ""
        /\ header # "" /\ lastEventID = ""

\* C7: when Decode returns ErrInvalidEncoding, Read() returns it and touches
\* neither the transport nor the decoder, sends no request and invokes no
\* callback; the Read() after it (no Close() in between) sends no request and
\* decodes from the same connection.
C7_InvalidEncodingKeepsStream ==
    [][\A p \in Procs :
          /\ DecodeStep(p, "ErrInvalidEncoding") =>
                /\ pc'[p] = "idle"
                /\ ret'[p] = [ev |-> ZeroEvent, err |-> "ErrInvalidEncoding"]
                /\ r' = r /\ dec' = dec /\ open' = open /\ attempts' = attempts
                /\ SelectSeq(log'[p], LAMBDA x : x.kind \in Callbacks) = Invoked(p)
          /\ (log'[p] # <<>> /\ log'[p][1].arg = "ErrInvalidEncoding" /\ ~closedSince'[p]) =>
                /\ Entries(log'[p], "attempt") = <<>>
                /\ \A i \in 1..Len(Entries(log'[p], "decode")) :
                      Entries(log'[p], "decode")[i].n = log'[p][1].n]_vars

\* C7: the Read() after an ErrInvalidEncoding has decoded again, from the
\* connection that is still the client's transport.
C7_Witness ==
    \E p \in Procs :
        /\ Started(p) /\ Before(p) = "ErrInvalidEncoding" /\ ~closedSince[p]
        /\ Decodes(p) # <<>> /\ Decodes(p)[1].n = StreamBefore(p) /\ r = StreamBefore(p)

\* C8: when Decode returns an error of the underlying reader, Read() closes the
\* connection it read and leaves es.r and es.dec nil, invokes the disconnect
\* observer once with the error (a timeout renamed a read timeout) and returns
\* that error; the Read() after it (on a context that is not cancelled) sends
\* exactly one request.
C8_ReadErrorDisconnects ==
    [][\A p \in Procs :
          LET after == IF log'[p] = <<>> THEN <<>> ELSE Entries(log'[p], "decode")
              tag == IF after = <<>> THEN "none" ELSE after[1].arg
          IN /\ (Started(p) /\ Decodes(p) = <<>> /\ tag \in ReadErrors) =>
                   /\ r' = NilConn /\ dec' = NilConn
                   /\ lDec[p] \notin open'
                   /\ pc'[p] = "rd_ondisc"
             /\ (pc'[p] = "idle" /\ tag \in ReadErrors) =>
                   /\ ret'[p] = [ev |-> ZeroEvent, err |-> Surfaced(tag)]
                   /\ Entries(log'[p], "OnDisconnect") = Once("OnDisconnect", Surfaced(tag))
                   /\ r' = NilConn /\ dec' = NilConn
             /\ (pc'[p] = "idle" /\ log'[p] # <<>> /\ ~cancelled'
                   /\ log'[p][1].arg \in {Surfaced(t) : t \in ReadErrors}) =>
                     Len(Entries(log'[p], "attempt")) = 1]_vars

\* C8: after a read timeout, the next Read() has sent one request and returned.
C8_Witness ==
    \E p \in Procs :
        /\ Returned(p) /\ Before(p) = "read timeout: timeout" /\ ~cancelled
        /\ Len(Attempts(p)) = 1

\* C9: when Decode returns an event without data, Read() returns ErrEmptyLine
\* with a zero Event and touches neither the transport nor the decoder; the
\* Read() after it (no Close() in between) sends no request and decodes from the
\* same connection.
C9_EmptyDataKeepsStream ==
    [][\A p \in Procs :
          /\ DecodeStep(p, "empty") =>
                /\ pc'[p] = "idle"
                /\ ret'[p] = [ev |-> ZeroEvent, err |-> "ErrEmptyLine"]
                /\ r' = r /\ dec' = dec /\ open' = open /\ attempts' = attempts
          /\ (log'[p] # <<>> /\ log'[p][1].arg = "ErrEmptyLine" /\ ~closedSince'[p]) =>
                /\ Entries(log'[p], "attempt") = <<>>
                /\ \A i \in 1..Len(Entries(log'[p], "decode")) :
                      Entries(log'[p], "decode")[i].n = log'[p][1].n]_vars

\* C9: the Read() after an ErrEmptyLine has decoded again, from the connection
\* that is still the client's transport and is open.
C9_Witness ==
    \E p \in Procs :
        /\ Started(p) /\ Before(p) = "ErrEmptyLine" /\ ~closedSince[p]
        /\ Decodes(p) # <<>> /\ Decodes(p)[1].n = StreamBefore(p)
        /\ r = StreamBefore(p) /\ r \in open

\* C10: after Read() returns an event whose Retry is the integer n, the time
\* the client waits before an attempt is n milliseconds.
C10_RetryFieldSetsInterval ==
    \A p \in Procs :
        (Returned(p) /\ ret[p].err = "nil" /\ RetryMillis(ret[p].ev.Retry) >= 0) =>
            retryInterval = RetryMillis(ret[p].ev.Retry)

\* The callback an answer is reported to: the cause of a failed attempt to the
\* error observer, ErrClosed to the disconnect observer for 204, the connect
\* observer for an event stream.
Cause(e) ==
    CASE ResponseClass(e) = "fail" -> Once("OnError", "connection attempt failed")
      [] ResponseClass(e) = "5xx" -> Once("OnError", "temporary server error")
      [] ResponseClass(e) = "204" -> Once("OnDisconnect", "ErrClosed")
      [] ResponseClass(e) = "ok" -> Once("OnConnect", "")
      [] OTHER -> IF e.n # 200 THEN Once("OnError", "unrecoverable HTTP status")
                  ELSE Once("OnError", "invalid content type")

\* The callback a return of Decode is reported to: the disconnect observer, for
\* an error of the underlying reader.
Dropped(p) ==
    IF Decodes(p) # <<>> /\ Decodes(p)[1].arg \in ReadErrors
    THEN Once("OnDisconnect", Surfaced(Decodes(p)[1].arg))
    ELSE <<>>

\* What Read() returns for what Decode returned.
ErrOf(tag) ==
    CASE tag = "event" -> "nil"
      [] tag = "empty" -> "ErrEmptyLine"
      [] OTHER -> Surfaced(tag)

\* What p's Read() returned and left of the client is given by the answer it got
\* and by what Decode returned, by a rule in which the observers do not appear.
SameWithoutObservers(p) ==
    Returned(p) =>
        /\ Decodes(p) # <<>> =>
              /\ ret[p].err = ErrOf(Decodes(p)[1].arg)
              /\ (Decodes(p)[1].arg # "event" => ret[p].ev = ZeroEvent)
              /\ (Decodes(p)[1].arg = "event" => ret[p].ev.Data # "")
              /\ (Decodes(p)[1].arg \in ReadErrors => r = NilConn /\ dec = NilConn)
        /\ (Decodes(p) = <<>> /\ Answers(p) # <<>>) =>
              /\ ret[p] = [ev |-> ZeroEvent, err |-> "ErrConnectionFailed"]
              /\ (~Got(p, "ok") => r = NilConn /\ dec = NilConn)
        /\ (Decodes(p) = <<>> /\ Answers(p) = <<>>) =>
              /\ ret[p].ev = ZeroEvent
              /\ ret[p].err \in {"ctx", "ErrConnectionFailed"}
              /\ (ret[p].err = "ctx" => cancelled)

\* C11 as stated: every error Read() returns is offered to the error observer or
\* to the disconnect observer when both are set, and what Read() returns and
\* leaves of the client does not depend on the observers.
C11_EveryErrorOffered ==
    \A p \in Procs :
        /\ (Returned(p) /\ ret[p].err # "nil" /\ observers = Callbacks) =>
              \E i \in 1..Len(Invoked(p)) : Invoked(p)[i].kind \in {"OnError", "OnDisconnect"}
        /\ SameWithoutObservers(p)

\* C11 as amended: the errors of the connection are offered to the observers
\* that are set (the cause of a failed or refused attempt to the error observer,
\* ErrClosed to the disconnect observer for 204, the error of a read that drops
\* the connection to the disconnect observer), each once and no other callback
\* is invoked; the context's error, ErrInvalidEncoding and ErrEmptyLine are
\* returned with no error offered; and what Read() returns and leaves of the
\* client does not depend on the observers.
C11_ConnectionErrorsOffered ==
    \A p \in Procs :
        /\ (Returned(p) /\ Answers(p) # <<>>) =>
              Invoked(p) = Cause(Answers(p)[1]) \o Dropped(p)
        /\ (Returned(p) /\ Answers(p) = <<>> /\ Decodes(p) # <<>>) =>
              Invoked(p) = Dropped(p)
        /\ (Returned(p) /\ Answers(p) = <<>> /\ Decodes(p) = <<>>) =>
              Invoked(p) \in {<<>>, Once("OnError", "connection attempt failed")}
        /\ (Returned(p) /\ ret[p].err \in {"ctx", "ErrInvalidEncoding", "ErrEmptyLine"}) =>
              /\ Entries(log[p], "OnError") = <<>>
              /\ Entries(log[p], "OnDisconnect") = <<>>
        /\ SameWithoutObservers(p)

\* C11: with every observer set, a Read() connected, lost the connection to an
\* EOF, told the connect observer and then the disconnect observer, and
\* returned the EOF.
C11_Witness ==
    \E p \in Procs :
        /\ Returned(p) /\ observers = Callbacks /\ Got(p, "ok")
        /\ ret[p].err = "EOF"
        /\ Invoked(p) = <<Entry("OnConnect", "", 0), Entry("OnDisconnect", "EOF", 0)>>

\* C11: with no observer set, a Read() lost the connection to an EOF and
\* returned the EOF.
C11_WitnessNoObservers ==
    \E p \in Procs :
        /\ Returned(p) /\ observers = {} /\ Got(p, "ok")
        /\ ret[p].err = "EOF" /\ Invoked(p) = <<>>

\* The encoder of handle 1 was handed the event and returned no error.
Encoded == encRet[1] = "nil"

\* A decoder has read what the encoder of handle 1 wrote.
Read1 == Encoded /\ decoded[1] # <<>>

\* The values of the data records of a byte stream, in order.
DataRecords(bytes) ==
    LET data == SelectSeq(Lines(bytes), LAMBDA l : l # <<>> /\ l[1] = "data") IN
    [i \in 1..Len(data) |-> LineValue(data[i])]

\* The source lines of a Data: what its line feeds separate, without the empty
\* segment that follows a final line feed.
SourceLines(data) ==
    LET segs == Split(data, LF) IN
    IF Len(data) > 0 /\ data[Len(data)] = LF THEN SubSeq(segs, 1, Len(segs) - 1) ELSE segs

\* C12: decoding what Encode wrote for an event gives one event with the same
\* Type, Retry and Data, the same ResetID, and the same ID unless the event
\* resets the cursor (stated for a Data whose line breaks are line feeds).
C12_RoundTrip ==
    (Read1 /\ \A i \in 1..Len(event.Data) : event.Data[i] # CR) =>
        /\ Len(decoded[1]) = 1
        /\ decoded[1][1].Type = event.Type
        /\ decoded[1][1].Retry = event.Retry
        /\ decoded[1][1].Data = event.Data
        /\ decoded[1][1].ResetID = event.ResetID
        /\ (~event.ResetID => decoded[1][1].ID = event.ID)

\* C13: Encode writes one data record per source line of Data, in order, each
\* holding its line (less a trailing carriage return), and none for the empty
\* segment that follows a final line feed.
C13_OneRecordPerLine ==
    Encoded =>
        DataRecords(sink[1]) =
            [i \in 1..Len(SourceLines(event.Data)) |-> TrimCR(SourceLines(event.Data)[i])]

\* The line of a field that has a value.
Line(field, value) == <<field, ":", " ">> \o value

\* The lines that precede the data records of an event: the cursor, the retry
\* and the type.
HeadLines(ev) ==
    (IF ev.ResetID THEN << <<"id", ":">> >>
     ELSE IF ev.ID # <<>> THEN <<Line("id", ev.ID)>> ELSE <<>>)
    \o (IF ev.Retry # <<>> THEN <<Line("retry", ev.Retry)>> ELSE <<>>)
    \o (IF ev.Type # <<>> THEN <<Line("event", ev.Type)>> ELSE <<>>)

\* C14: an Encode that returns no error has written to the sink, in this order,
\* the cursor record ("id:" alone when ResetID is true, whatever the ID; else the
\* id field if there is an ID), the retry field if there is a Retry, the event
\* field if there is a Type, one data record or more, and one blank line, and
\* has then flushed the sink, once.
C14_EncodeOrder ==
    Encoded =>
        LET ls == Lines(sink[1])
            k == Len(HeadLines(event))
        IN /\ sink[1] # <<>> /\ sink[1][Len(sink[1])] = LF
           /\ Len(ls) >= k + 2
           /\ SubSeq(ls, 1, k) = HeadLines(event)
           /\ \A i \in (k + 1)..(Len(ls) - 1) : ls[i] # <<>> /\ ls[i][1] = "data"
           /\ ls[Len(ls)] = <<>>
           /\ flushed[1] = <<Len(sink[1])>>

\* C14: an event that resets the cursor, and has an ID, a Retry, a Type and no
\* Data, was encoded.
C14_Witness ==
    /\ Encoded
    /\ event = [Type |-> <<"t">>, ID |-> <<"4">>, Retry |-> <<"5">>, Data |-> <<>>,
                ResetID |-> TRUE]
    /\ sink[1] = <<"id", ":", LF, "retry", ":", " ", "5", LF,
                   "event", ":", " ", "t", LF, "data", LF, LF>>

(* ------------------------ the registry's properties -------------------- *)

Range(q) == {q[i] : i \in 1..Len(q)}

\* Worker w's current (or last) call is a broadcast of this name.
Calls(w, name) == op[w].name = name

\* In this step worker w takes the snapshot of a broadcast of this name.
Snaps(w, name) == op'[w].n # op[w].n /\ op'[w].name = name

\* In this step worker w's Unregister of the handle whose write failed runs
\* (up to the callback, if there is one).
Prunes(w) == wpc[w] = "bc_unreg" /\ wpc'[w] # "bc_unreg"

\* Worker w's broadcast has returned.
Sent(w, name) == Calls(w, name) /\ wpc[w] = "idle"

\* The handles worker w's broadcast has written to, in order.
Written(w) == [i \in 1..Len(wrote[w]) |-> wrote[w][i].h]

\* Every handle whose write failed, in a broadcast that has returned, is out of
\* the registry, so that Count() does not count it and List() does not hold its
\* info, unless it was registered again after the write.
Pruned(w) ==
    \A i \in 1..Len(wrote[w]) :
        wrote[w][i].err # "nil" =>
            \/ /\ encoders[wrote[w][i].h] = NoInfo
               /\ CountOf(encoders) = Cardinality(Registered \ {wrote[w][i].h})
               /\ InfoOf(wrote[w][i].h) \notin ListOf(encoders)
            \/ registers[wrote[w][i].h] > wrote[w][i].regs

\* What a broadcast removes from the registry: nothing when it writes, and when
\* it unregisters, only the handle whose write has just failed.
RemovesOnlyFailed(w) ==
    /\ wrote'[w] # wrote[w] => encoders' = encoders
    /\ Prunes(w) =>
          /\ \A h \in Handles : encoders'[h] # encoders[h] => h = op[w].h
          /\ encoders'[op[w].h] = NoInfo
          /\ wrote[w][Len(wrote[w])].h = op[w].h
          /\ wrote[w][Len(wrote[w])].err # "nil"

\* C15: Broadcast writes, once each, to the handles that are registered when it
\* takes its snapshot, and to no other; it unregisters each handle whose write
\* fails, which is then out of Count() and List() when Broadcast returns (unless
\* it was registered again meanwhile), and it removes no handle whose write
\* succeeded.
C15_BroadcastPrunesFailed ==
    [][\A w \in Workers :
          /\ Snaps(w, "Broadcast") =>
                Range(taken'[w]) = Registered /\ Len(taken'[w]) = Cardinality(Registered)
          /\ Calls(w, "Broadcast") => RemovesOnlyFailed(w)
          /\ (Calls(w, "Broadcast") /\ wpc'[w] = "idle") =>
                /\ [i \in 1..Len(wrote'[w]) |-> wrote'[w][i].h] = taken'[w]
                /\ Pruned(w)']_vars

\* C15: a Broadcast to two registered handles has returned; the write to handle
\* 1 failed and handle 1 is out of the registry, the write to handle 2
\* succeeded and handle 2 is registered and has the event.
C15_Witness ==
    \E w \in Workers :
        /\ Sent(w, "Broadcast") /\ Range(Written(w)) = {1, 2}
        /\ \E i \in 1..2 : wrote[w][i].h = 1 /\ wrote[w][i].err = "ErrConnectionClosed"
        /\ \E i \in 1..2 : wrote[w][i].h = 2 /\ wrote[w][i].err = "nil"
        /\ Registered = {2} /\ sink[2] # <<>> /\ sink[1] = <<>>

\* In this step worker w calls Unregister for handle h, or its broadcast does.
Unregisters(w, h) ==
    \/ op'[w].n # op[w].n /\ op'[w].name = "Unregister" /\ op'[w].h = h
    \/ Prunes(w) /\ op[w].h = h

\* The disconnect callbacks of a handle that are running.
Disconnecting(h) == Cardinality({w \in Workers : wpc[w] = "un_cb" /\ op[w].h = h})

\* C16: an Unregister of a handle that is not in the registry changes nothing
\* and invokes no disconnect callback, and the disconnect callback is invoked at
\* most once for each registration of a handle, whoever unregisters it.
C16_UnregisterIdempotent ==
    [][/\ \A w \in Workers, h \in Handles :
            (Unregisters(w, h) /\ encoders[h] = NoInfo) =>
                /\ encoders' = encoders
                /\ disconnects' = disconnects
                /\ wpc'[w] # "un_cb"
       /\ \A h \in Handles :
            disconnects'[h] + Disconnecting(h)' <= registers'[h]]_vars

\* C16: handle 1 was registered once; a Broadcast whose write to it failed and an
\* Unregister have both unregistered it, and the disconnect callback was invoked
\* once.
C16_Witness ==
    \E w, v \in Workers :
        /\ Sent(w, "Broadcast") /\ wrote[w] # <<>>
        /\ wrote[w][1].h = 1 /\ wrote[w][1].err # "nil"
        /\ Calls(v, "Unregister") /\ op[v].h = 1 /\ wpc[v] = "idle"
        /\ registers[1] = 1 /\ disconnects[1] = 1

\* C17: no callback of the registry runs while its caller holds the lock of the
\* registry.
C17_CallbacksOutsideLock ==
    \A w \in Workers : wpc[w] \in {"rg_cb", "un_cb"} => mu # w

\* The last error of a sequence of writes that is classified as a closed
\* connection, or none.
RECURSIVE LastClosed(_)
LastClosed(q) ==
    IF q = <<>> THEN "nil"
    ELSE IF q[Len(q)].err = "ErrConnectionClosed" THEN q[Len(q)].err
    ELSE LastClosed(SubSeq(q, 1, Len(q) - 1))

\* C18: a Broadcast that has returned has unregistered every handle whose write
\* failed, whatever the error, and has returned the error of the last write, in
\* the order of the writes, that failed with a closed connection, or no error
\* if no write failed so.
C18_BroadcastReturnsLastClosed ==
    \A w \in Workers :
        Sent(w, "Broadcast") =>
            /\ result[w] = LastClosed(wrote[w])
            /\ Pruned(w)

\* C18: a Broadcast whose first write failed with a closed connection and whose
\* second write failed otherwise has returned the first error, and both handles
\* are out of the registry.
C18_Witness ==
    \E w \in Workers :
        /\ Sent(w, "Broadcast") /\ Len(wrote[w]) = 2
        /\ wrote[w][1].err = "ErrConnectionClosed" /\ wrote[w][2].err = "errWrite"
        /\ result[w] = "ErrConnectionClosed" /\ Registered = {}

\* C18: a Broadcast whose only failure was not a closed connection has returned
\* no error, and the handle is out of the registry.
C18_WitnessOtherClass ==
    \E w \in Workers :
        /\ Sent(w, "Broadcast") /\ Len(wrote[w]) = 1
        /\ wrote[w][1].err = "errWrite" /\ result[w] = "nil" /\ Registered = {}

\* C19: while CloseAll runs it holds the lock, no other call of the registry
\* begins or unregisters, and the map stays whole until it is emptied at once;
\* when CloseAll returns the encoder of every handle that was registered is
\* closed, the map is empty and Count() is 0.
C19_CloseAllAtomic ==
    [][\A w \in Workers :
          /\ wpc'[w] = "ca_close" => mu' = w
          /\ wpc[w] = "ca_close" =>
                /\ ops' = ops
                /\ \A v \in Workers \ {w} :
                      wpc'[v] = wpc[v] \/ wpc[v] \in {"bc_write", "bc_field"}
                /\ encoders' = encoders \/ wpc'[w] = "idle"
          /\ (wpc[w] = "ca_close" /\ wpc'[w] = "idle") =>
                /\ \A h \in Registered : closed'[h]
                /\ CountOf(encoders') = 0 /\ ListOf(encoders') = {}
                /\ mu' = Unlocked]_vars

\* C19: CloseAll has returned after two handles were registered; both encoders
\* are closed and the registry is empty.
C19_Witness ==
    \E w \in Workers :
        /\ Calls(w, "CloseAll") /\ wpc[w] = "idle"
        /\ registers[1] = 1 /\ registers[2] = 1
        /\ closed[1] /\ closed[2] /\ CountOf(encoders) = 0

\* C20: BroadcastTo writes, once each, to the handles that are registered when it
\* takes its snapshot and whose info passes the filter, and to no other; it
\* unregisters each of them whose write fails, as Broadcast does, and no other
\* handle.
C20_BroadcastToFiltered ==
    [][\A w \in Workers :
          /\ Snaps(w, "BroadcastTo") =>
                /\ Range(taken'[w]) = {h \in Registered : InfoOf(h) = op'[w].filter}
                /\ Len(taken'[w]) = Cardinality(Range(taken'[w]))
          /\ Calls(w, "BroadcastTo") =>
                /\ RemovesOnlyFailed(w)
                /\ \A h \in Handles :
                      (wpc[w] = "bc_field" /\ enc'[w] # enc[w] /\ sink'[h] # sink[h]) =>
                          InfoOf(h) = op[w].filter /\ h = Head(snap[w])
                /\ Prunes(w) => InfoOf(op[w].h) = op[w].filter
          /\ (Calls(w, "BroadcastTo") /\ wpc'[w] = "idle") =>
                /\ [i \in 1..Len(wrote'[w]) |-> wrote'[w][i].h] = taken'[w]
                /\ Pruned(w)']_vars

\* C20: a BroadcastTo for the infos "x" has returned while handles 1 (info "x")
\* and 2 (info "y") were registered: the write to handle 1 failed and it is out
\* of the registry, handle 2 got nothing and is registered.
C20_Witness ==
    \E w \in Workers :
        /\ Sent(w, "BroadcastTo") /\ op[w].filter = "x"
        /\ Len(wrote[w]) = 1 /\ wrote[w][1].h = 1 /\ wrote[w][1].err # "nil"
        /\ Registered = {2} /\ sink[2] = <<>> /\ registers[2] = 1

(* ---------------------- concurrent callers of connect() ---------------- *)

\* Reader p's request is in flight, or about to be sent.
InFlight(p) == pc[p] \in {"cn_header", "cn_do"}

\* Reader p holds a connection it opened and has not committed or closed yet.
Uncommitted(p) == pc[p] \in {"cn_commit", "cn_closeown"}

\* Reader p comes to the commit and finds a transport committed.
FindsCommitted(p) == pc[p] = "cn_commit" /\ pc'[p] = "cn_closeown"

\* Reader p, who found a transport committed, closes the connection it opened.
ClosesOwn(p) == pc[p] = "cn_closeown" /\ pc'[p] # "cn_closeown"

\* C21: with several readers in connect() a committed transport is never
\* overwritten (es.r and es.dec change from a connection to nil only); a
\* reader that comes to the commit and finds a transport leaves es.r and
\* es.dec as they are and then closes the connection it opened, and nothing
\* else; every open connection is the committed one or one a reader is about
\* to commit or close; and no reader holds es.mu while its request is in
\* flight.
C21_CommittedNeverOverwritten ==
    /\ [][/\ r # NilConn => r' \in {r, NilConn}
          /\ dec # NilConn => dec' \in {dec, NilConn}
          /\ \A p \in Procs :
                /\ FindsCommitted(p) =>
                      /\ r # NilConn /\ lResp[p] # r
                      /\ r' = r /\ dec' = dec /\ open' = open
                /\ ClosesOwn(p) =>
                      /\ open' = open \ {lResp[p]}
                      /\ lResp[p] # r
                      /\ r' = r /\ dec' = dec]_vars
    /\ [](/\ dec = r
          /\ \A c \in open : c = r \/ \E p \in Procs : Uncommitted(p) /\ lResp[p] = c
          /\ \A p \in Procs : InFlight(p) => esMu # p)

\* Both readers opened a connection; one is committed, and the reader that
\* came second to the commit has closed its own.
C21_Witness ==
    \E p \in Procs :
        /\ pc[p] = "rd_dec"
        /\ attempts = 2
        /\ r # NilConn
        /\ lResp[p] \notin {NilConn, r}
        /\ lResp[p] \notin open
        /\ open = {r}

(* ------------------ what a failing Read() leaves unchanged ------------- *)

\* Reader p's Read() returns with this step.
Returns(p) == pc[p] # "idle" /\ pc'[p] = "idle"

\* C22: a step changes lastEventID or the retry interval only when it is the
\* return of a Read() that returns no error and an event with data; no step
\* of a Read() that returns an error (ErrInvalidEncoding, ErrEmptyLine,
\* ErrConnectionFailed, an error of the transport) changes either.
C22_FailingReadKeepsCursor ==
    [][/\ (lastEventID' # lastEventID \/ retryInterval' # retryInterval) =>
             \E p \in Procs :
                 /\ Returns(p)
                 /\ ret'[p].err = "nil"
                 /\ ret'[p].ev.Data # ""
       /\ \A p \in Procs :
             Returns(p) /\ ret'[p].err # "nil" =>
                 lastEventID' = lastEventID /\ retryInterval' = retryInterval]_vars

\* A Read() has returned ErrEmptyLine on a stream whose cursor is set.
C22_Witness ==
    /\ pc[1] = "idle"
    /\ ret[1].err = "ErrEmptyLine"
    /\ lastEventID = "41"
    /\ r # NilConn

(* --------------------------- a closed encoder -------------------------- *)

\* With this step goroutine g begins a call of this name on the encoder of
\* handle h.
Did(g, h, name) == enc'[g].n = enc[g].n + 1 /\ enc'[g].h = h /\ enc'[g].name = name

\* This step is one of goroutine g's call in progress: a write, e.w.Flush() or
\* the lock region of handleEncodeError.
CallStep(g) == enc[g].at # "idle" /\ enc'[g] # enc[g]

\* The step leaves the sink of handle h as it is: no byte, no Flush.
SinkUntouched(h) == sink'[h] = sink[h] /\ flushed'[h] = flushed[h]

\* C23: a Close() on an encoder that is not closed marks it closed and closes
\* the sink once if it is an io.Closer; a Close() on a closed encoder changes
\* nothing and returns nil; no sink is closed twice; a closed encoder stays
\* closed; and an Encode or SetRetry called on a closed encoder returns
\* ErrEncoderClosed at once and writes nothing.
C23_CloseLatches ==
    /\ [][\A h \in Handles :
            /\ closed[h] => closed'[h]
            /\ \A g \in Workers :
                  /\ Did(g, h, "Close") =>
                        /\ closed'[h]
                        /\ SinkUntouched(h)
                        /\ enc'[g].at = "idle"
                        /\ IF closed[h]
                           THEN sinkClosed'[h] = sinkClosed[h] /\ enc'[g].ret = "nil"
                           ELSE sinkClosed'[h] =
                                    sinkClosed[h] + (IF h \in Closers THEN 1 ELSE 0)
                  /\ closed[h] /\ (Did(g, h, "Encode") \/ Did(g, h, "SetRetry")) =>
                        /\ enc'[g].at = "idle"
                        /\ enc'[g].ret = "ErrEncoderClosed"
                        /\ enc'[g].wrote = 0
                        /\ SinkUntouched(h)
                        /\ sinkClosed'[h] = sinkClosed[h]]_vars
    /\ [](\A h \in Handles : sinkClosed[h] <= 1)

\* An encoder was closed, its sink with it, and the Encode that followed
\* returned ErrEncoderClosed with nothing written.
C23_Witness ==
    \E g \in Workers :
        /\ enc[g].name = "Encode" /\ enc[g].h = 1
        /\ enc[g].ret = "ErrEncoderClosed"
        /\ CallsMade = 2
        /\ sinkClosed[1] = 1
        /\ sink[1] = <<>>

(* ------------------------- a write that fails -------------------------- *)

\* The errors with which a sink tells that its peer is gone: io.EOF and
\* io.ErrClosedPipe.
PeerGoneSignals == {"EOF", "ErrClosedPipe"}

\* With this step goroutine g calls Encode or SetRetry on the encoder of handle h.
DidWrite(g, h) == Did(g, h, "Encode") \/ Did(g, h, "SetRetry")

\* C24: an Encode or SetRetry one of whose writes failed with io.EOF or
\* io.ErrClosedPipe returns ErrConnectionClosed, and the encoder is closed when
\* it returns; one whose write failed with another error returns that error;
\* no step of such a call but the one of handleEncodeError changes e.closed;
\* and an Encode or SetRetry called on an encoder closed that way returns an
\* error and writes nothing.
C24_PeerGoneLatches ==
    [][\A g \in Workers :
          /\ CallStep(g) /\ Guarded(enc[g].name) =>
                /\ (enc'[g].at = "idle" /\ enc'[g].sinkErr \in PeerGoneSignals) =>
                      /\ enc'[g].ret = "ErrConnectionClosed"
                      /\ closed'[enc[g].h]
                /\ (enc'[g].at = "idle" /\ enc'[g].sinkErr \notin PeerGoneSignals \cup {"nil"}) =>
                      enc'[g].ret = enc'[g].sinkErr
                /\ (enc'[g].at = "idle" /\ enc'[g].sinkErr = "nil") =>
                      enc'[g].ret \in {"nil", "ErrInvalidEncoding"}
                /\ (enc[g].at # "latch" \/ enc[g].sinkErr \notin PeerGoneSignals) =>
                      closed'[enc[g].h] = closed[enc[g].h]
          /\ \A h \in Handles :
                DidWrite(g, h) /\ closed[h] =>
                    /\ enc'[g].at = "idle"
                    /\ enc'[g].ret \notin {"nil", "pending"}
                    /\ SinkUntouched(h)
                    /\ closed'[h]]_vars

\* A write to a sink whose peer is gone closed the encoder (its sink, an
\* io.Closer, was never closed: no Close() did it) after part of an event
\* was written, and the Encode after it returned ErrEncoderClosed.
C24_Witness ==
    \E g \in Workers :
        /\ enc[g].name = "Encode" /\ enc[g].h = 1
        /\ enc[g].ret = "ErrEncoderClosed"
        /\ CallsMade = 2
        /\ closed[1]
        /\ sinkClosed[1] = 0
        /\ sink[1] # <<>>
        /\ flushed[1] = <<>>

\* A write of a SetRetry failed with another error: it is returned, and the
\* encoder is open.
C24_WitnessOtherError ==
    \E g \in Workers :
        /\ enc[g].name = "SetRetry"
        /\ enc[g].sinkErr = "errWrite"
        /\ enc[g].ret = "errWrite"
        /\ ~closed[enc[g].h]

(* -------------------- the lock during a broadcast ---------------------- *)

\* Worker w is in the loop of a Broadcast or BroadcastTo and has a write to
\* make (the write may block for any time).
Writing(w) == wpc[w] = "bc_field" \/ (wpc[w] = "bc_write" /\ snap[w] # <<>>)

\* This step is one of worker w.
Acts(w) == wpc'[w] # wpc[w] \/ op'[w] # op[w]

\* C25: a worker in the loop of a Broadcast or BroadcastTo (at a write, or
\* about to unregister a handle) does not hold cm.mu; while a worker has a
\* write to make, a worker that is idle finds the lock free and can call
\* Register, Unregister, Count and List; and cm.encoders changes only in a
\* step of a worker that takes the free lock or holds it.
C25_NoLockDuringWrites ==
    /\ [](\A w \in Workers :
            /\ wpc[w] \in {"bc_write", "bc_field", "bc_unreg"} => mu # w
            /\ Writing(w) =>
                  \A v \in Workers \ {w} :
                      wpc[v] = "idle" /\ ops < MaxOps =>
                          /\ mu = Unlocked
                          /\ ENABLED Count(v)
                          /\ ENABLED List(v)
                          /\ \A h \in Handles : ENABLED Register(v, h)
                          /\ \A h \in Handles : ENABLED Unregister(v, h))
    /\ [][encoders' # encoders =>
             \E w \in Workers : Acts(w) /\ mu \in {Unlocked, w}]_vars

\* While worker 1 has a write of its broadcast to make, worker 2 called
\* Register, which returned with the handle in the registry.
C25_Witness ==
    /\ Writing(1)
    /\ op[1].name \in {"Broadcast", "BroadcastTo"}
    /\ op[2].name = "Register"
    /\ op[2].n > op[1].n
    /\ wpc[2] = "idle"
    /\ encoders[op[2].h] # NoInfo

(* ------------------------- concurrent Read() calls --------------------- *)

\* Reader p's Decode has failed and this step is its teardown.
TearsDown(p) == pc[p] = "rd_decode" /\ pc'[p] = "rd_ondisc"

\* C26: the teardown of a reader whose Decode failed closes and drops only
\* the transport its decoder was reading from: when another transport was
\* committed in the meantime, es.r and es.dec stay as they are and that
\* transport stays open.
C26_TeardownOwnTransport ==
    [][\A p \in Procs :
          TearsDown(p) /\ r # NilConn /\ r # lDec[p] =>
              /\ r' = r
              /\ dec' = dec
              /\ r \in open']_vars

(* ---------------------- Close() during a connect() --------------------- *)

\* Reader p's connect() passes the commit with this step.
Commits(p) == pc[p] = "cn_commit" /\ pc'[p] # "cn_commit"

\* C27: when Close() was called while a connect() had its answer and had not
\* come to the commit, the commit leaves the client without a transport and
\* the connection that connect() opened is closed.
C27_CloseDuringConnect ==
    [][\A p \in Procs :
          Commits(p) /\ closedAtCommit[p] =>
              /\ r' = NilConn
              /\ dec' = NilConn
              /\ lResp[p] \notin open']_vars

(* ------------------ an Encode that returns ErrInvalidEncoding ---------- *)

\* C28: an Encode that returns ErrInvalidEncoding has written no record of
\* its event to the sink.
C28_InvalidEncodingWritesNothing ==
    \A g \in Workers :
        (enc[g].name = "Encode" /\ enc[g].ret = "ErrInvalidEncoding") => enc[g].wrote = 0

====
